---- MODULE Spec2Model ----
(***************************************************************************)
(* A model of the e-disclosure listing / retrieval scripts:                *)
(*   open_report.py  - the cache pipeline ensure_pdf_cached, type          *)
(*                     detection, archive extraction and PDF staging;      *)
(*   list_reports.py - FilesTableParser, the normalisers, and the          *)
(*                     script-filter items whose arg feeds load_payload.   *)
(*                                                                         *)
(* Text is modelled as sequences of character codes, so that suffixes,     *)
(* case folding and ordering are computed rather than assumed.             *)
(***************************************************************************)
EXTENDS Integers, Sequences, FiniteSets, TLC

\* ------------------------------------------------------------------ bounds
MaxCalls == 2
MaxEntries == 2
MaxEvents == 11
MaxRows == 2
MaxPageRows == 2

\* ------------------------------------------------------- text and paths
\* Path components, spelled as character codes.
NameA == <<97>>
NameB == <<98>>
NameRPdf == <<114, 46, 112, 100, 102>>
NameRPdfUpper == <<82, 46, 80, 68, 70>>
NameEvil == <<101, 118, 105, 108>>
NameLnk == <<108, 110, 107>>
DotDot == <<46, 46>>
CurDir == <<46>>

\* str.lower() on one character code (Latin and Cyrillic letters).
LowerChar(c) ==
    IF (c >= 65 /\ c <= 90) \/ (c >= 1040 /\ c <= 1071) THEN c + 32
    ELSE IF c = 1025 THEN 1105
    ELSE c

Lower(s) == [i \in 1..Len(s) |-> LowerChar(s[i])]

\* bytes.startswith / str.startswith
StartsWith(s, prefix) ==
    /\ Len(prefix) <= Len(s)
    /\ \A i \in 1..Len(prefix) : s[i] = prefix[i]

\* Path.suffix of a file name: the text from the last dot on, empty when the
\* name has no dot, or only a leading dot, or ends with a dot.
LastDot(s) ==
    IF \E i \in 1..Len(s) : s[i] = 46
    THEN CHOOSE i \in 1..Len(s) : s[i] = 46 /\ \A j \in (i+1)..Len(s) : s[j] # 46
    ELSE 0

Suffix(s) ==
    IF LastDot(s) > 1 /\ LastDot(s) < Len(s)
    THEN SubSeq(s, LastDot(s), Len(s))
    ELSE <<>>

\* ------------------------------------------------------------- archives
\* An archive entry: its stored name split at "/", and whether the entry is a
\* symbolic link whose target lies outside the extraction directory.
Entries ==
    { [name |-> <<NameA, NameRPdf>>, link |-> FALSE],
      [name |-> <<NameB, NameRPdfUpper>>, link |-> FALSE],
      [name |-> <<DotDot, DotDot, NameEvil>>, link |-> FALSE],
      [name |-> <<NameLnk>>, link |-> TRUE] }

Archives == UNION { [1..n -> Entries] : n \in 0..MaxEntries }

\* Magic signatures tested by detect_file_type.
SigPdf == <<37, 80, 68, 70, 45>>
SigZipLocal == <<80, 75, 3, 4>>
SigZipCentral == <<80, 75, 5, 6>>
SigZipSpanned == <<80, 75, 7, 8>>
Sig7z == <<55, 122, 188, 175, 39, 28>>
SigRar4 == <<82, 97, 114, 33, 26, 7, 0>>
SigRar5 == <<82, 97, 114, 33, 26, 7, 1, 0>>
HdrJunk == <<60, 104, 116, 109, 108, 62>>

\* What the portal can serve: a PDF, something unrecognisable, or an archive.
Blobs ==
    { [exists |-> TRUE, hdr |-> h, entries |-> <<>>, complete |-> TRUE] :
          h \in { SigPdf, HdrJunk } }
    \cup
    { [exists |-> TRUE, hdr |-> h, entries |-> es, complete |-> TRUE] :
          h \in { SigZipLocal, Sig7z, SigRar4 }, es \in Archives }

NoFile == [exists |-> FALSE, hdr |-> <<>>, entries |-> <<>>, complete |-> FALSE]

\* A download interrupted while copying leaves either an empty file or the
\* leading bytes of the body.
Truncated(b) ==
    { [exists |-> TRUE, hdr |-> <<>>, entries |-> <<>>, complete |-> FALSE],
      [b EXCEPT !.complete = FALSE] }

\* ----------------------------------------------------------- cache layout
Exts == { "zip", "7z", "rar", "pdf", "bin" }

\* candidates, in the order ensure_pdf_cached probes them.
candidates == << "zip", "7z", "rar", "pdf", "bin" >>

\* The extension text of a cache file name.
ExtSuffix(e) ==
    CASE e = "zip" -> <<46, 122, 105, 112>>
      [] e = "7z"  -> <<46, 55, 122>>
      [] e = "rar" -> <<46, 114, 97, 114>>
      [] e = "pdf" -> <<46, 112, 100, 102>>
      [] OTHER     -> <<46, 98, 105, 110>>

Tools == { "py7zr", "bsdtar", "unrar" }

\* str.upper() on one character code (Latin and Cyrillic letters).
UpperChar(c) ==
    IF (c >= 97 /\ c <= 122) \/ (c >= 1072 /\ c <= 1103) THEN c - 32
    ELSE IF c = 1105 THEN 1025
    ELSE c

Upper(s) == [i \in 1..Len(s) |-> UpperChar(s[i])]

\* The key fields of the one document the cache model follows.
KeyTicker == <<83, 66>>
KeyDocType == "IFRS"
KeyPeriod == "2024Q1"
KeyPublishDate == "2024-05-02"

\* ReportPayload.base_name
base_name(p) == << Upper(p.ticker), p.doc_type, p.period, p.publish_date >>

\* ReportPayload.cache_dir
cache_dir(p) == Upper(p.ticker)

\* The path built from a key that also holds the url.
pdf_cacheKeyedByUrl(p) ==
    [dir |-> cache_dir(p), base |-> Append(base_name(p), p.url), ext |-> "pdf"]

\* pdf_cache as ensure_pdf_cached names it.
pdf_cache(p) == [dir |-> cache_dir(p), base |-> base_name(p), ext |-> "pdf"]

\* The payloads that address the followed cache slot: any spelling of the
\* ticker, any download URL.
Payloads ==
    { p \in [ticker : { <<83, 66>>, <<115, 98>>, <<84, 66>> }, url : { "u1", "u2" },
              doc_type : { KeyDocType }, period : { KeyPeriod },
              publish_date : { KeyPublishDate }] :
        base_name(p) = << KeyTicker, KeyDocType, KeyPeriod, KeyPublishDate >> }

VARIABLES
    raw,          \* cache files of the key, by extension; raw["pdf"] is pdf_cache
    dirExists,    \* extract_dir exists
    dirFiles,     \* what lies under extract_dir: [path, link]
    dirVerified,  \* history: the content of extract_dir comes from an extraction
                  \* that ran to completion and passed _check_extracted_paths
    tools,        \* which of py7zr / bsdtar / unrar this machine has
    pc,           \* position of the running ensure_pdf_cached call
    payload,      \* the ReportPayload of the running call
    file_path,    \* local file_path (an extension)
    file_type,    \* local file_type
    log,          \* operations performed by the running (or last) call
    results,      \* outcome of every finished call, oldest first
    shortcut,     \* history: the extract call of the running call returned
                  \* by the already-extracted shortcut
    staged,       \* history: the path stage_pdf copied last, or <<>>
    same          \* history: the running call has the payload of the call before

fsVars == << raw, dirExists, dirFiles, dirVerified, tools, pc, payload,
             file_path, file_type, log, results, shortcut, staged, same >>

VARIABLES
    in_files_table,
    in_row,
    current_cell_index,
    current_row,
    rows,
    in_file_cell,
    last,         \* history: the event handled last
    fed,          \* history: number of events handled
    input         \* the events of the document being fed, when it is fixed

parserVars == << in_files_table, in_row, current_cell_index, current_row, rows,
                 in_file_cell, last, fed, input >>

\* The listing script: where main stands, its command line, the page types
\* still to fetch and those fetched, the parser.rows of the page fed last,
\* the documents collected, the items printed, and what load_payload made of
\* the item picked.
VARIABLES listPc, command, ticker, period, page_types, fetched, page_rows, docs,
          items, loaded

listVars == << listPc, command, ticker, period, page_types, fetched, page_rows,
              docs, items, loaded >>

\* normalize_period on its own: the text handed to it, where the run stands,
\* the token it returned, and the token it returned for that token.
VARIABLES period_text, periodPc, token, token_again

periodVars == << period_text, periodPc, token, token_again >>

\* detect_file_type on its own: the leading bytes and the name of the file
\* handed to it, and the type it returned ("" before the call).
VARIABLES file_header, file_name, detected

detectVars == << file_header, file_name, detected >>

\* Two invocations of ensure_pdf_cached running at the same time over the
\* files of one cache key (raw, dirExists and dirFiles are what they share):
\* per invocation its position, its locals file_path and file_type, the body
\* its request received, the name under which the file it holds open for
\* writing is found now ("" when it holds none), and how it ended.
VARIABLES
    procPc,
    procPath,
    procType,
    procBody,
    procHandle,
    procResult,
    writers       \* history: the invocations that finished writing, in order

raceVars == << procPc, procPath, procType, procBody, procHandle, procResult,
               writers >>

vars == << fsVars, parserVars, listVars, periodVars, detectVars, raceVars >>

\* ------------------------------------------------------ pure operations
\* detect_file_type: the magic signature in the first 8 bytes decides; the
\* lower-cased suffix is consulted only when no signature matches.
Header8(hdr) == SubSeq(hdr, 1, IF Len(hdr) < 8 THEN Len(hdr) ELSE 8)

suffix_map(sfx) ==
    CASE sfx = <<46, 112, 100, 102>> -> "pdf"
      [] sfx = <<46, 122, 105, 112>> -> "zip"
      [] sfx = <<46, 55, 122>>       -> "7z"
      [] sfx = <<46, 114, 97, 114>>  -> "rar"
      [] OTHER                       -> "unsupported"

\* detect_file_type consulting the suffix first and the signature after it.
detect_file_typeSuffixFirst(hdr, sfx) ==
    LET header == Header8(hdr) IN
    IF suffix_map(Lower(sfx)) # "unsupported" THEN suffix_map(Lower(sfx))
    ELSE IF StartsWith(header, SigPdf) THEN "pdf"
    ELSE IF \/ StartsWith(header, SigZipLocal)
            \/ StartsWith(header, SigZipCentral)
            \/ StartsWith(header, SigZipSpanned) THEN "zip"
    ELSE IF StartsWith(header, Sig7z) THEN "7z"
    ELSE IF StartsWith(header, SigRar4) \/ StartsWith(header, SigRar5) THEN "rar"
    ELSE "unsupported"

detect_file_type(hdr, sfx) ==
    LET header == Header8(hdr) IN
    IF StartsWith(header, SigPdf) THEN "pdf"
    ELSE IF \/ StartsWith(header, SigZipLocal)
            \/ StartsWith(header, SigZipCentral)
            \/ StartsWith(header, SigZipSpanned) THEN "zip"
    ELSE IF StartsWith(header, Sig7z) THEN "7z"
    ELSE IF StartsWith(header, SigRar4) \/ StartsWith(header, SigRar5) THEN "rar"
    ELSE suffix_map(Lower(sfx))

\* (target_dir / name).resolve(), relative to target_dir: how many levels the
\* path climbs above target_dir, and what follows below that point.
RECURSIVE ResolveFrom(_, _, _)
ResolveFrom(name, up, below) ==
    IF name = <<>> THEN [up |-> up, below |-> below]
    ELSE LET c == Head(name) IN
         IF c = DotDot
         THEN IF below = <<>>
              THEN ResolveFrom(Tail(name), up + 1, below)
              ELSE ResolveFrom(Tail(name), up, SubSeq(below, 1, Len(below) - 1))
         ELSE IF c = CurDir \/ c = <<>>
         THEN ResolveFrom(Tail(name), up, below)
         ELSE ResolveFrom(Tail(name), up, Append(below, c))

Resolve(name) == ResolveFrom(name, 0, <<>>)

\* member_path.resolve().relative_to(target_dir.resolve()) does not raise.
IsWithinUnchecked(name) == TRUE

IsWithin(name) == Resolve(name).up = 0

\* The first entry the validation loop of _extract_zip rejects, 0 if none.
FirstUnsafe(entries) ==
    IF \E i \in 1..Len(entries) : ~IsWithin(entries[i].name)
    THEN CHOOSE i \in 1..Len(entries) :
             /\ ~IsWithin(entries[i].name)
             /\ \A j \in 1..(i - 1) : IsWithin(entries[j].name)
    ELSE 0

\* Where an extractor puts an entry: empty, "." and ".." components are
\* dropped from the stored name.
IsPlainPart(c) == c # <<>> /\ c # CurDir /\ c # DotDot

Sanitize(name) == SelectSeq(name, IsPlainPart)

\* The directory content after the first k entries have been written.
\* Symbolic links are materialised only by extractors that support them.
Written(entries, k, withLinks) ==
    { [path |-> Sanitize(entries[i].name), link |-> withLinks /\ entries[i].link] :
          i \in 1..k }

\* _has_extracted_content
has_extracted_contentInverted(exists, files) == exists /\ files = {}

has_extracted_content(exists, files) == exists /\ files # {}

\* _check_extracted_paths: the paths under target_dir that resolve outside it.
UnsafePaths(files) == { f \in files : f.link }

\* Ordering of Path objects: part by part, each part by character code.
RECURSIVE SeqLess(_, _)
SeqLess(s, t) ==
    IF s = <<>> THEN t # <<>>
    ELSE IF t = <<>> THEN FALSE
    ELSE IF Head(s) = Head(t) THEN SeqLess(Tail(s), Tail(t))
    ELSE Head(s) < Head(t)

RECURSIVE PathLess(_, _)
PathLess(p, q) ==
    IF p = <<>> THEN q # <<>>
    ELSE IF q = <<>> THEN FALSE
    ELSE IF Head(p) = Head(q) THEN PathLess(Tail(p), Tail(q))
    ELSE SeqLess(Head(p), Head(q))

\* stage_pdf: the regular files with a case-insensitive .pdf suffix.
PdfsUnderAnySuffix(files) == { f.path : f \in { g \in files : ~g.link } }

PdfsUnder(files) ==
    { f.path : f \in { g \in files :
          /\ ~g.link
          /\ g.path # <<>>
          /\ Lower(Suffix(g.path[Len(g.path)])) = <<46, 112, 100, 102>> } }

\* pdfs[-1]: the last path of the sorted list.
FirstSortedLast(paths) == CHOOSE p \in paths : \A q \in paths \ {p} : PathLess(q, p)

FirstSorted(paths) == CHOOSE p \in paths : \A q \in paths \ {p} : PathLess(p, q)

\* The content of a PDF taken out of an archive.
ExtractedPdf == [exists |-> TRUE, hdr |-> SigPdf, entries |-> <<>>, complete |-> TRUE]

\* Outcomes of a call; url notes, as history, the url the call was given.
Ok(p) == [ok |-> TRUE, err |-> "", what |-> <<>>, diag |-> <<>>,
          path |-> pdf_cache(p), url |-> p.url]

NoPath == [dir |-> <<>>, base |-> <<>>, ext |-> ""]

Err(p, kind, what, diag) ==
    [ok |-> FALSE, err |-> kind, what |-> what, diag |-> diag, path |-> NoPath,
     url |-> p.url]

\* ------------------------------------------------- the cache pipeline
\* The call returns or raises: its outcome is recorded and the script ends.
Finish(res) ==
    /\ results' = Append(results, res)
    /\ pc' = "idle"

\* main -> ensure_pdf_cached(payload)
Invoke(p) ==
    /\ pc = "idle"
    /\ Len(results) < MaxCalls
    /\ payload' = p
    /\ pc' = "locate"
    /\ log' = <<>>
    /\ file_path' = "bin"
    /\ file_type' = ""
    /\ shortcut' = FALSE
    /\ same' = (results # <<>> /\ p = payload)
    /\ UNCHANGED << raw, dirExists, dirFiles, dirVerified, tools, results, staged >>
    /\ UNCHANGED << parserVars, listVars, periodVars, detectVars, raceVars >>

\* file_path = next((p for p in candidates if p.exists()), base.bin)
FirstCandidate(files) ==
    IF \E i \in 1..Len(candidates) : files[candidates[i]].exists
    THEN candidates[CHOOSE i \in 1..Len(candidates) :
                        /\ files[candidates[i]].exists
                        /\ \A j \in 1..(i - 1) : ~files[candidates[j]].exists]
    ELSE "bin"

Locate ==
    /\ pc = "locate"
    /\ file_path' = FirstCandidate(raw)
    /\ pc' = "check"
    /\ UNCHANGED << raw, dirExists, dirFiles, dirVerified, tools, payload,
                    file_type, log, results, shortcut, staged, same >>
    /\ UNCHANGED << parserVars, listVars, periodVars, detectVars, raceVars >>

\* if not pdf_cache.exists(): if not file_path.exists(): ...  /  return pdf_cache
CheckCacheNoHit ==
    /\ pc = "check"
    /\ pc' = IF raw[file_path].exists THEN "detect" ELSE "download"
    /\ UNCHANGED << raw, dirExists, dirFiles, dirVerified, tools, payload,
                    file_path, file_type, log, results, shortcut, staged, same >>
    /\ UNCHANGED << parserVars, listVars, periodVars, detectVars, raceVars >>

\* The check without "if not file_path.exists()": every miss downloads.
CheckCacheRedownload ==
    /\ pc = "check"
    /\ IF raw["pdf"].exists
       THEN Finish(Ok(payload))
       ELSE /\ pc' = "download"
            /\ UNCHANGED results
    /\ UNCHANGED << raw, dirExists, dirFiles, dirVerified, tools, payload,
                    file_path, file_type, log, shortcut, staged, same >>
    /\ UNCHANGED << parserVars, listVars, periodVars, detectVars, raceVars >>

CheckCache ==
    /\ pc = "check"
    /\ IF raw["pdf"].exists
       THEN Finish(Ok(payload))
       ELSE /\ pc' = IF raw[file_path].exists THEN "detect" ELSE "download"
            /\ UNCHANGED results
    /\ UNCHANGED << raw, dirExists, dirFiles, dirVerified, tools, payload,
                    file_path, file_type, log, shortcut, staged, same >>
    /\ UNCHANGED << parserVars, listVars, periodVars, detectVars, raceVars >>

\* download_file(payload.url, file_path): the body arrives whole, or the
\* request fails before anything is written, or the copy breaks off.
download_file ==
    /\ pc = "download"
    /\ log' = Append(log, "download_file")
    /\ \E b \in Blobs :
         \/ /\ raw' = [raw EXCEPT ![file_path] = b]
            /\ pc' = "detect"
            /\ UNCHANGED results
         \/ /\ Finish(Err(payload, "FetchError", <<>>, <<>>))
            /\ UNCHANGED raw
         \/ \E t \in Truncated(b) :
              /\ raw' = [raw EXCEPT ![file_path] = t]
              /\ Finish(Err(payload, "FetchError", <<>>, <<>>))
    /\ UNCHANGED << dirExists, dirFiles, dirVerified, tools, payload,
                    file_path, file_type, shortcut, staged, same >>
    /\ UNCHANGED << parserVars, listVars, periodVars, detectVars, raceVars >>

\* file_type = detect_file_type(file_path)
Detect ==
    /\ pc = "detect"
    /\ log' = Append(log, "detect_file_type")
    /\ LET t == detect_file_type(raw[file_path].hdr, ExtSuffix(file_path)) IN
       IF t = "unsupported"
       THEN /\ Finish(Err(payload, "UnsupportedFileType", <<>>, <<>>))
            /\ UNCHANGED file_type
       ELSE /\ file_type' = t
            /\ pc' = "rename"
            /\ UNCHANGED results
    /\ UNCHANGED << raw, dirExists, dirFiles, dirVerified, tools, payload,
                    file_path, shortcut, staged, same >>
    /\ UNCHANGED << parserVars, listVars, periodVars, detectVars, raceVars >>

\* final_path = base.{file_type}; rename unless it is the same or taken.
Rename ==
    /\ pc = "rename"
    /\ LET final_path == file_type IN
       IF file_path # final_path /\ ~raw[final_path].exists
       THEN /\ raw' = [raw EXCEPT ![final_path] = raw[file_path],
                                  ![file_path] = NoFile]
            /\ file_path' = final_path
            /\ log' = Append(log, "rename")
       ELSE UNCHANGED << raw, file_path, log >>
    /\ pc' = IF file_type = "pdf" THEN "copy" ELSE "extract"
    /\ UNCHANGED << dirExists, dirFiles, dirVerified, tools, payload,
                    file_type, results, shortcut, staged, same >>
    /\ UNCHANGED << parserVars, listVars, periodVars, detectVars, raceVars >>

\* shutil.copy2(file_path, pdf_cache): copyfile refuses when both name the
\* same file (SameFileError).
CopyPdf ==
    /\ pc = "copy"
    /\ log' = Append(log, "copy2")
    /\ IF file_path = "pdf"
       THEN /\ Finish(Err(payload, "SameFileError", <<>>, <<>>))
            /\ UNCHANGED raw
       ELSE /\ raw' = [raw EXCEPT !["pdf"] = raw[file_path]]
            /\ Finish(Ok(payload))
    /\ UNCHANGED << dirExists, dirFiles, dirVerified, tools, payload,
                    file_path, file_type, shortcut, staged, same >>
    /\ UNCHANGED << parserVars, listVars, periodVars, detectVars, raceVars >>

\* _extract_zip(file_path, extract_dir)
extract_zip ==
    /\ pc = "extract"
    /\ file_type = "zip"
    /\ IF has_extracted_content(dirExists, dirFiles)
       THEN /\ shortcut' = TRUE
            /\ pc' = "stage"
            /\ UNCHANGED << dirExists, dirFiles, dirVerified, log, results >>
       ELSE LET a == raw[file_path] IN
            /\ dirExists' = TRUE
            /\ UNCHANGED shortcut
            /\ IF ~a.complete
               THEN /\ log' = Append(log, "open_archive")
                    /\ Finish(Err(payload, "BadZipFile", <<>>, <<>>))
                    /\ UNCHANGED << dirFiles, dirVerified >>
               ELSE IF FirstUnsafe(a.entries) # 0
               THEN /\ log' = Append(log, "open_archive")
                    /\ Finish(Err(payload, "UnsafeEntry",
                                  a.entries[FirstUnsafe(a.entries)].name, <<>>))
                    /\ UNCHANGED << dirFiles, dirVerified >>
               ELSE \E k \in 0..Len(a.entries) :
                    LET files == Written(a.entries, k, FALSE) IN
                    /\ log' = log \o << "open_archive", "extractall" >>
                    /\ dirFiles' = files
                    /\ IF k < Len(a.entries)
                       THEN /\ dirVerified' = (files = {})
                            /\ Finish(Err(payload, "ExtractionError", <<>>, <<>>))
                       ELSE IF UnsafePaths(files) # {}
                       THEN /\ dirVerified' = FALSE
                            /\ \E f \in UnsafePaths(files) :
                                 Finish(Err(payload, "UnsafePath", f.path, <<>>))
                       ELSE /\ dirVerified' = TRUE
                            /\ pc' = "stage"
                            /\ UNCHANGED results
    /\ UNCHANGED << raw, tools, payload, file_path, file_type, staged, same >>
    /\ UNCHANGED << parserVars, listVars, periodVars, detectVars, raceVars >>

\* _extract_7z(file_path, extract_dir)
extract_7z ==
    /\ pc = "extract"
    /\ file_type = "7z"
    /\ IF has_extracted_content(dirExists, dirFiles)
       THEN /\ shortcut' = TRUE
            /\ pc' = "stage"
            /\ UNCHANGED << dirExists, dirFiles, dirVerified, log, results >>
       ELSE LET a == raw[file_path] IN
            /\ dirExists' = TRUE
            /\ UNCHANGED shortcut
            /\ IF "py7zr" \notin tools
               THEN /\ log' = Append(log, "import_py7zr")
                    /\ Finish(Err(payload, "MissingDependency", <<>>, <<>>))
                    /\ UNCHANGED << dirFiles, dirVerified >>
               ELSE IF ~a.complete
               THEN /\ log' = log \o << "import_py7zr", "open_archive" >>
                    /\ Finish(Err(payload, "Bad7zFile", <<>>, <<>>))
                    /\ UNCHANGED << dirFiles, dirVerified >>
               ELSE \E k \in 0..Len(a.entries) :
                    LET files == Written(a.entries, k, TRUE) IN
                    /\ log' = log \o << "import_py7zr", "open_archive", "extractall" >>
                    /\ dirFiles' = files
                    /\ IF k < Len(a.entries)
                       THEN /\ dirVerified' = (files = {})
                            /\ Finish(Err(payload, "ExtractionError", <<>>, <<>>))
                       ELSE IF UnsafePaths(files) # {}
                       THEN /\ dirVerified' = FALSE
                            /\ \E f \in UnsafePaths(files) :
                                 Finish(Err(payload, "UnsafePath", f.path, <<>>))
                       ELSE /\ dirVerified' = TRUE
                            /\ pc' = "stage"
                            /\ UNCHANGED results
    /\ UNCHANGED << raw, tools, payload, file_path, file_type, staged, same >>
    /\ UNCHANGED << parserVars, listVars, periodVars, detectVars, raceVars >>

\* One run of an external RAR tool: it writes the first k entries and exits
\* with status 0 only if it wrote them all from a complete archive.
ToolRuns(a) ==
    { [k |-> k, ok |-> ok] : k \in 0..Len(a.entries), ok \in BOOLEAN } \
    { r \in [k : 0..Len(a.entries), ok : BOOLEAN] :
          r.ok /\ (r.k < Len(a.entries) \/ ~a.complete) }

\* _extract_rar keeping only the diagnostic of the tool tried last.
extract_rarLastErrorOnly ==
    /\ pc = "extract"
    /\ file_type = "rar"
    /\ IF has_extracted_content(dirExists, dirFiles)
       THEN /\ shortcut' = TRUE
            /\ pc' = "stage"
            /\ UNCHANGED << dirExists, dirFiles, dirVerified, log, results >>
       ELSE LET a == raw[file_path]
                Checked(files, lg) ==
                    /\ dirFiles' = files
                    /\ log' = lg
                    /\ IF UnsafePaths(files) # {}
                       THEN /\ dirVerified' = FALSE
                            /\ \E f \in UnsafePaths(files) :
                                 Finish(Err(payload, "UnsafePath", f.path, <<>>))
                       ELSE /\ dirVerified' = TRUE
                            /\ pc' = "stage"
                            /\ UNCHANGED results
                Unrar(files, lg, errors) ==
                    IF "unrar" \in tools
                    THEN \E r \in ToolRuns(a) :
                         LET after == files \cup Written(a.entries, r.k, TRUE) IN
                         IF r.ok
                         THEN Checked(after, Append(lg, "unrar"))
                         ELSE /\ dirFiles' = after
                              /\ log' = Append(lg, "unrar failed")
                              /\ dirVerified' = (after = {})
                              /\ Finish(Err(payload, "ExtractionFailed", <<>>,
                                            Append(errors, "unrar failed")))
                    ELSE /\ dirFiles' = files
                         /\ log' = lg
                         /\ dirVerified' = (files = {})
                         /\ Finish(Err(payload, "ExtractionFailed", <<>>,
                                       Append(errors, "unrar not found")))
            IN
            /\ dirExists' = TRUE
            /\ UNCHANGED shortcut
            /\ IF "bsdtar" \in tools
               THEN \E r \in ToolRuns(a) :
                    LET files == Written(a.entries, r.k, TRUE) IN
                    IF r.ok
                    THEN Checked(files, Append(log, "bsdtar"))
                    ELSE Unrar(files, Append(log, "bsdtar failed"),
                               <<>>)
               ELSE Unrar({}, log, <<>>)
    /\ UNCHANGED << raw, tools, payload, file_path, file_type, staged, same >>
    /\ UNCHANGED << parserVars, listVars, periodVars, detectVars, raceVars >>

\* _extract_rar(file_path, extract_dir): bsdtar first, then unrar. The log
\* notes each run with its outcome: "bsdtar" for exit status 0, "bsdtar
\* failed" for any other; likewise for unrar.
extract_rar ==
    /\ pc = "extract"
    /\ file_type = "rar"
    /\ IF has_extracted_content(dirExists, dirFiles)
       THEN /\ shortcut' = TRUE
            /\ pc' = "stage"
            /\ UNCHANGED << dirExists, dirFiles, dirVerified, log, results >>
       ELSE LET a == raw[file_path]
                Checked(files, lg) ==
                    /\ dirFiles' = files
                    /\ log' = lg
                    /\ IF UnsafePaths(files) # {}
                       THEN /\ dirVerified' = FALSE
                            /\ \E f \in UnsafePaths(files) :
                                 Finish(Err(payload, "UnsafePath", f.path, <<>>))
                       ELSE /\ dirVerified' = TRUE
                            /\ pc' = "stage"
                            /\ UNCHANGED results
                Unrar(files, lg, errors) ==
                    IF "unrar" \in tools
                    THEN \E r \in ToolRuns(a) :
                         LET after == files \cup Written(a.entries, r.k, TRUE) IN
                         IF r.ok
                         THEN Checked(after, Append(lg, "unrar"))
                         ELSE /\ dirFiles' = after
                              /\ log' = Append(lg, "unrar failed")
                              /\ dirVerified' = (after = {})
                              /\ Finish(Err(payload, "ExtractionFailed", <<>>,
                                            Append(errors, "unrar failed")))
                    ELSE /\ dirFiles' = files
                         /\ log' = lg
                         /\ dirVerified' = (files = {})
                         /\ Finish(Err(payload, "ExtractionFailed", <<>>,
                                       Append(errors, "unrar not found")))
            IN
            /\ dirExists' = TRUE
            /\ UNCHANGED shortcut
            /\ IF "bsdtar" \in tools
               THEN \E r \in ToolRuns(a) :
                    LET files == Written(a.entries, r.k, TRUE) IN
                    IF r.ok
                    THEN Checked(files, Append(log, "bsdtar"))
                    ELSE Unrar(files, Append(log, "bsdtar failed"),
                               << "bsdtar failed" >>)
               ELSE Unrar({}, log, << "bsdtar not found" >>)
    /\ UNCHANGED << raw, tools, payload, file_path, file_type, staged, same >>
    /\ UNCHANGED << parserVars, listVars, periodVars, detectVars, raceVars >>

\* stage_pdf(extract_dir, pdf_cache)
stage_pdf ==
    /\ pc = "stage"
    /\ IF raw["pdf"].exists
       THEN /\ Finish(Ok(payload))
            /\ UNCHANGED << raw, log, staged >>
       ELSE LET pdfs == PdfsUnder(dirFiles) IN
            /\ log' = Append(log, "scan")
            /\ IF pdfs = {}
               THEN /\ Finish(Err(payload, "NoPdfInArchive", <<>>, <<>>))
                    /\ UNCHANGED << raw, staged >>
               ELSE /\ raw' = [raw EXCEPT !["pdf"] = ExtractedPdf]
                    /\ staged' = FirstSorted(pdfs)
                    /\ Finish(Ok(payload))
    /\ UNCHANGED << dirExists, dirFiles, dirVerified, tools, payload,
                    file_path, file_type, shortcut, same >>
    /\ UNCHANGED << parserVars, listVars, periodVars, detectVars, raceVars >>

\* Between two runs the user may install what an error message asked for:
\* py7zr becomes importable, or shutil.which starts finding bsdtar / unrar.
InstallTool(t) ==
    /\ pc = "idle"
    /\ t \notin tools
    /\ tools' = tools \cup {t}
    /\ UNCHANGED << raw, dirExists, dirFiles, dirVerified, pc, payload,
                    file_path, file_type, log, results, shortcut, staged, same >>
    /\ UNCHANGED << parserVars, listVars, periodVars, detectVars, raceVars >>

\* ------------------------------------------------- FilesTableParser
\* Attribute and text values, spelled as character codes.
ClsFilesTable == <<102, 105, 108, 101, 115, 45, 116, 97, 98, 108, 101>>
ClsFileLink == <<102, 105, 108, 101, 45, 108, 105, 110, 107>>
TextBlank == <<32>>
TextA == <<65>>
TextPaddedB == <<32, 66, 32>>
HrefU == <<117>>
HrefV == <<118>>

\* "marker" in value
Contains(s, sub) ==
    \E i \in 1..(Len(s) - Len(sub) + 1) : SubSeq(s, i, i + Len(sub) - 1) = sub

\* str.strip()
IsSpace(c) ==
    \/ c = 32
    \/ c >= 9 /\ c <= 13
    \/ c >= 28 /\ c <= 31
    \/ c >= 8192 /\ c <= 8202
    \/ c \in {133, 160, 5760, 8232, 8233, 8239, 8287, 12288}

RECURSIVE LStrip(_)
LStrip(s) == IF s # <<>> /\ IsSpace(Head(s)) THEN LStrip(Tail(s)) ELSE s

RECURSIVE RStrip(_)
RStrip(s) ==
    IF s # <<>> /\ IsSpace(s[Len(s)]) THEN RStrip(SubSeq(s, 1, Len(s) - 1)) ELSE s

Strip(s) == RStrip(LStrip(s))

\* Parser events: handle_starttag(tag, attrs), handle_endtag(tag),
\* handle_data(data).
StartTag(tag, cls, href) ==
    [kind |-> "start", tag |-> tag, cls |-> cls, href |-> href, data |-> <<>>]

EndTag(tag) ==
    [kind |-> "end", tag |-> tag, cls |-> <<>>, href |-> <<>>, data |-> <<>>]

Data(text) ==
    [kind |-> "data", tag |-> "", cls |-> <<>>, href |-> <<>>, data |-> text]

NoEvent == [kind |-> "", tag |-> "", cls |-> <<>>, href |-> <<>>, data |-> <<>>]

Events ==
    { StartTag("table", c, <<>>) : c \in { ClsFilesTable, <<>> } }
    \cup { StartTag(t, <<>>, <<>>) : t \in { "tr", "td" } }
    \cup { StartTag("a", ClsFileLink, h) : h \in { <<>>, HrefU, HrefV } }
    \cup { StartTag("a", <<>>, HrefU) }
    \cup { EndTag(t) : t \in { "tr", "table", "td" } }
    \cup { Data(d) : d \in { TextBlank, TextA, TextPaddedB } }

\* current_row as reset at a row start.
EmptyRow == [type |-> <<>>, period |-> <<>>, publish_date |-> <<>>, file_url |-> <<>>]

\* if self.current_row.get("file_url")
RowHasLinkAlways(row) == TRUE

RowHasLink(row) == row.file_url # <<>>

\* if current_row[field]: current_row[field] += " "; current_row[field] += text
AccumulateNoSeparator(old, text) == old \o text

Accumulate(old, text) == IF old # <<>> THEN old \o <<32>> \o text ELSE text

\* FilesTableParser.handle_starttag
handle_starttag(tag, cls, href) ==
    IF tag = "table" /\ Contains(cls, ClsFilesTable)
    THEN /\ in_files_table' = TRUE
         /\ UNCHANGED << in_row, current_cell_index, current_row, rows, in_file_cell >>
    ELSE IF tag = "tr" /\ in_files_table
    THEN /\ in_row' = TRUE
         /\ current_cell_index' = -1
         /\ current_row' = EmptyRow
         /\ in_file_cell' = FALSE
         /\ UNCHANGED << in_files_table, rows >>
    ELSE IF tag = "td" /\ in_row
    THEN /\ current_cell_index' = current_cell_index + 1
         /\ in_file_cell' = IF current_cell_index + 1 = 5 THEN TRUE ELSE in_file_cell
         /\ UNCHANGED << in_files_table, in_row, current_row, rows >>
    ELSE IF tag = "a" /\ in_row /\ in_file_cell /\ Contains(cls, ClsFileLink)
    THEN /\ current_row' = IF href # <<>>
                           THEN [current_row EXCEPT !.file_url = href]
                           ELSE current_row
         /\ UNCHANGED << in_files_table, in_row, current_cell_index, rows, in_file_cell >>
    ELSE UNCHANGED << in_files_table, in_row, current_cell_index, current_row,
                      rows, in_file_cell >>

\* handle_endtag closing a row without leaving the link cell.
handle_endtagKeepingFileCell(tag) ==
    IF tag = "tr" /\ in_row
    THEN /\ in_row' = FALSE
         /\ rows' = IF RowHasLink(current_row) THEN Append(rows, current_row) ELSE rows
         /\ UNCHANGED << in_files_table, current_cell_index, current_row, in_file_cell >>
    ELSE IF tag = "table" /\ in_files_table
    THEN /\ in_files_table' = FALSE
         /\ UNCHANGED << in_row, current_cell_index, current_row, rows, in_file_cell >>
    ELSE UNCHANGED << in_files_table, in_row, current_cell_index, current_row,
                      rows, in_file_cell >>

\* FilesTableParser.handle_endtag
handle_endtag(tag) ==
    IF tag = "tr" /\ in_row
    THEN /\ in_row' = FALSE
         /\ in_file_cell' = FALSE
         /\ rows' = IF RowHasLink(current_row) THEN Append(rows, current_row) ELSE rows
         /\ UNCHANGED << in_files_table, current_cell_index, current_row >>
    ELSE IF tag = "table" /\ in_files_table
    THEN /\ in_files_table' = FALSE
         /\ UNCHANGED << in_row, current_cell_index, current_row, rows, in_file_cell >>
    ELSE UNCHANGED << in_files_table, in_row, current_cell_index, current_row,
                      rows, in_file_cell >>

\* FilesTableParser.handle_data
handle_data(data) ==
    /\ current_row' =
          IF ~in_row \/ Strip(data) = <<>> THEN current_row
          ELSE IF current_cell_index = 1
          THEN [current_row EXCEPT !.type = Accumulate(@, Strip(data))]
          ELSE IF current_cell_index = 2
          THEN [current_row EXCEPT !.period = Accumulate(@, Strip(data))]
          ELSE IF current_cell_index = 4
          THEN [current_row EXCEPT !.publish_date = Accumulate(@, Strip(data))]
          ELSE current_row
    /\ UNCHANGED << in_files_table, in_row, current_cell_index, rows, in_file_cell >>

\* HTMLParser.feed dispatching one event to its handler.
Handle(ev) ==
    /\ last' = ev
    /\ fed' = fed + 1
    /\ CASE ev.kind = "start" -> handle_starttag(ev.tag, ev.cls, ev.href)
         [] ev.kind = "end"   -> handle_endtag(ev.tag)
         [] OTHER             -> handle_data(ev.data)

\* --------------------------------------------- listing: normalisers
\* Words of the portal's vocabulary, spelled as character codes.
WordIfrs == <<1052, 1057, 1060, 1054>>
WordRas == <<1056, 1057, 1041, 1059>>
WordQuarterStem == <<1082, 1074, 1072, 1088, 1090>>
WordMonthStem == <<1084, 1077, 1089, 1103, 1094>>
WordHalfStem == <<1087, 1086, 1083, 1091, 1075, 1086, 1076>>

\* normalize_doc_type: None (here the empty text) for an empty input.
normalize_doc_type(text) ==
    IF text = <<>> THEN <<>>
    ELSE IF Contains(Upper(text), WordIfrs) THEN WordIfrs
    ELSE WordRas

IsDigit(c) == c \in 48..57

\* \w of the re module on str patterns: letters, digits, underscore.
IsWord(c) ==
    \/ IsDigit(c)
    \/ c >= 65 /\ c <= 90
    \/ c >= 97 /\ c <= 122
    \/ c = 95
    \/ c >= 1024 /\ c <= 1279

\* int(text) for a run of digits, and str(n).
RECURSIVE StrToInt(_)
StrToInt(s) ==
    IF s = <<>> THEN 0
    ELSE 10 * StrToInt(SubSeq(s, 1, Len(s) - 1)) + (s[Len(s)] - 48)

RECURSIVE IntToStr(_)
IntToStr(n) ==
    IF n < 10 THEN << 48 + n >> ELSE Append(IntToStr(n \div 10), 48 + (n % 10))

\* re.search(r"(19|20)\d{2}", text): start of the leftmost match, 0 if none.
IsYearAt(s, i) ==
    /\ i + 3 <= Len(s)
    /\ \/ s[i] = 49 /\ s[i + 1] = 57
       \/ s[i] = 50 /\ s[i + 1] = 48
    /\ IsDigit(s[i + 2])
    /\ IsDigit(s[i + 3])

FindYear(s) ==
    IF \E i \in 1..Len(s) : IsYearAt(s, i)
    THEN CHOOSE i \in 1..Len(s) :
             IsYearAt(s, i) /\ \A j \in 1..(i - 1) : ~IsYearAt(s, j)
    ELSE 0

\* End of the longest run of characters of one class that starts at i.
RECURSIVE RunEnd(_, _, _)
RunEnd(s, i, class) ==
    IF i < Len(s) /\ s[i + 1] \in class THEN RunEnd(s, i + 1, class) ELSE i

\* A match of  ([class]+)\s*word  starting at i, after \b when bounded. The
\* run is taken whole: a shorter one would leave a character of the class
\* where white space or the word must stand.
MatchAt(s, i, class, word, bounded) ==
    /\ s[i] \in class
    /\ bounded => (i = 1 \/ ~IsWord(s[i - 1]))
    /\ StartsWith(LStrip(SubSeq(s, RunEnd(s, i, class) + 1, Len(s))), word)

\* re.search of that pattern: group 1 of the leftmost match, <<>> if none.
Match(s, class, word, bounded) ==
    IF \E i \in 1..Len(s) : MatchAt(s, i, class, word, bounded)
    THEN LET i == CHOOSE k \in 1..Len(s) :
                      /\ MatchAt(s, k, class, word, bounded)
                      /\ \A j \in 1..(k - 1) : ~MatchAt(s, j, class, word, bounded)
         IN SubSeq(s, i, RunEnd(s, i, class))
    ELSE <<>>

\* roman_map.get(rom), 0 for None.
roman_map(rom) ==
    CASE rom = <<105>> -> 1
      [] rom = <<105, 105>> -> 2
      [] rom = <<105, 105, 105>> -> 3
      [] rom = <<105, 118>> -> 4
      [] OTHER -> 0

\* normalize_period with the half-year rule tried before the quarter rules.
normalize_periodHalfFirst(raw_text) ==
    LET text == Strip(raw_text)
        at == FindYear(text)
        year == SubSeq(text, at, at + 3)
        lowered == Lower(text)
        rom == Match(lowered, {105, 118, 120}, WordQuarterStem, TRUE)
        arabic == Match(lowered, 48..57, WordQuarterStem, TRUE)
        months == Match(lowered, 48..57, WordMonthStem, FALSE)
    IN IF text = <<>> THEN text
       ELSE IF at = 0 THEN text
       ELSE IF ~( \/ Contains(lowered, WordMonthStem)
                  \/ Contains(lowered, WordQuarterStem \o <<1072, 1083>>)
                  \/ Contains(lowered, WordHalfStem) ) THEN year
       ELSE IF Contains(lowered, WordHalfStem)
               \/ Contains(lowered, <<54, 32>> \o WordMonthStem \o <<1077, 1074>>)
            THEN year \o <<72, 49>>
       ELSE IF rom # <<>> /\ roman_map(rom) # 0
            THEN year \o <<81>> \o IntToStr(roman_map(rom))
       ELSE IF arabic # <<>> THEN year \o <<81>> \o IntToStr(StrToInt(arabic))
       ELSE IF months # <<>> THEN year \o <<77>> \o IntToStr(StrToInt(months))
       ELSE year

\* normalize_period
normalize_period(raw_text) ==
    LET text == Strip(raw_text)
        at == FindYear(text)
        year == SubSeq(text, at, at + 3)
        lowered == Lower(text)
        rom == Match(lowered, {105, 118, 120}, WordQuarterStem, TRUE)
        arabic == Match(lowered, 48..57, WordQuarterStem, TRUE)
        months == Match(lowered, 48..57, WordMonthStem, FALSE)
    IN IF text = <<>> THEN text
       ELSE IF at = 0 THEN text
       ELSE IF ~( \/ Contains(lowered, WordMonthStem)
                  \/ Contains(lowered, WordQuarterStem \o <<1072, 1083>>)
                  \/ Contains(lowered, WordHalfStem) ) THEN year
       ELSE IF rom # <<>> /\ roman_map(rom) # 0
            THEN year \o <<81>> \o IntToStr(roman_map(rom))
       ELSE IF arabic # <<>> THEN year \o <<81>> \o IntToStr(StrToInt(arabic))
       ELSE IF Contains(lowered, WordHalfStem)
               \/ Contains(lowered, <<54, 32>> \o WordMonthStem \o <<1077, 1074>>)
            THEN year \o <<72, 49>>
       ELSE IF months # <<>> THEN year \o <<77>> \o IntToStr(StrToInt(months))
       ELSE year

\* --------------------------------------------- listing: dates and links
\* str.split(sep) on one separator character.
RECURSIVE Fields(_, _)
Fields(s, sep) ==
    IF \A i \in 1..Len(s) : s[i] # sep THEN << s >>
    ELSE LET i == CHOOSE k \in 1..Len(s) :
                      s[k] = sep /\ \A j \in 1..(k - 1) : s[j] # sep
         IN << SubSeq(s, 1, i - 1) >> \o Fields(SubSeq(s, i + 1, Len(s)), sep)

\* A run of lo..hi digits whose value is in from..to: one strptime field.
IsField(s, lo, hi, from, to) ==
    /\ Len(s) >= lo
    /\ Len(s) <= hi
    /\ \A i \in 1..Len(s) : IsDigit(s[i])
    /\ StrToInt(s) >= from
    /\ StrToInt(s) <= to

DaysInMonth(y, m) ==
    IF m = 2 THEN (IF (y % 4 = 0 /\ y % 100 # 0) \/ y % 400 = 0 THEN 29 ELSE 28)
    ELSE IF m \in {4, 6, 9, 11} THEN 30
    ELSE 31

NoDate == [ok |-> FALSE, year |-> 0, month |-> 0, day |-> 0,
           hour |-> 0, minute |-> 0, second |-> 0]

\* The text up to the first white space, and what follows that white space.
DatePart(t) ==
    IF \E i \in 1..Len(t) : IsSpace(t[i])
    THEN SubSeq(t, 1, (CHOOSE i \in 1..Len(t) :
                           IsSpace(t[i]) /\ \A j \in 1..(i - 1) : ~IsSpace(t[j])) - 1)
    ELSE t

TimePart(t) == LStrip(SubSeq(t, Len(DatePart(t)) + 1, Len(t)))

\* %d.%m.%Y against a text, as strptime matches (1-2 digit day and month,
\* 4-digit year) and datetime validates (year >= 1, day within the month).
IsDate(s) ==
    LET f == Fields(s, 46)
    IN /\ Len(f) = 3
       /\ IsField(f[1], 1, 2, 1, 31)
       /\ IsField(f[2], 1, 2, 1, 12)
       /\ IsField(f[3], 4, 4, 1, 9999)
       /\ StrToInt(f[1]) <= DaysInMonth(StrToInt(f[3]), StrToInt(f[2]))

\* %H:%M and %H:%M:%S; a second of 60 or 61 matches the pattern and is then
\* refused by datetime, which is a ValueError as well.
IsTime(s) ==
    LET f == Fields(s, 58)
    IN /\ Len(f) \in {2, 3}
       /\ IsField(f[1], 1, 2, 0, 23)
       /\ IsField(f[2], 1, 2, 0, 59)
       /\ Len(f) = 3 => IsField(f[3], 1, 2, 0, 59)

\* parse_publish_date: the first of the three formats that matches.
parse_publish_date(raw_text) ==
    LET text == Strip(raw_text)
        d == Fields(DatePart(text), 46)
        t == Fields(TimePart(text), 58)
        hasTime == Len(DatePart(text)) < Len(text)
    IN IF ~IsDate(DatePart(text)) THEN NoDate
       ELSE IF hasTime /\ ~IsTime(TimePart(text)) THEN NoDate
       ELSE [ok |-> TRUE,
             year |-> StrToInt(d[3]), month |-> StrToInt(d[2]), day |-> StrToInt(d[1]),
             hour |-> IF hasTime THEN StrToInt(t[1]) ELSE 0,
             minute |-> IF hasTime THEN StrToInt(t[2]) ELSE 0,
             second |-> IF hasTime /\ Len(t) = 3 THEN StrToInt(t[3]) ELSE 0]

\* A number written with at least n digits.
RECURSIVE ZeroPad(_, _)
ZeroPad(s, n) == IF Len(s) >= n THEN s ELSE ZeroPad(<<48>> \o s, n)

\* date.isoformat()
isoformat(dt) ==
    ZeroPad(IntToStr(dt.year), 4) \o <<45>> \o ZeroPad(IntToStr(dt.month), 2)
        \o <<45>> \o ZeroPad(IntToStr(dt.day), 2)

\* strftime("%d.%m.%Y")
strftime(dt) ==
    ZeroPad(IntToStr(dt.day), 2) \o <<46>> \o ZeroPad(IntToStr(dt.month), 2)
        \o <<46>> \o IntToStr(dt.year)

\* datetime values compare field by field, the year first.
DateLess(a, b) ==
    SeqLess(<< a.year, a.month, a.day, a.hour, a.minute, a.second >>,
            << b.year, b.month, b.day, b.hour, b.minute, b.second >>)

BASE_URL ==
    <<104, 116, 116, 112, 115, 58, 47, 47, 119, 119, 119, 46, 101, 45, 100, 105,
      115, 99, 108, 111, 115, 117, 114, 101, 46, 114, 117, 47, 112, 111, 114,
      116, 97, 108, 47>>

\* urljoin(BASE_URL, rel) for the links a files table carries: an empty link
\* gives the base itself, an http(s) URL stays, //host takes the base's
\* scheme, a rooted path replaces the base's path, any other text is
\* appended to the base's directory.
urljoin(rel) ==
    IF rel = <<>> THEN BASE_URL
    ELSE IF \/ StartsWith(rel, <<104, 116, 116, 112, 58, 47, 47>>)
            \/ StartsWith(rel, <<104, 116, 116, 112, 115, 58, 47, 47>>) THEN rel
    ELSE IF StartsWith(rel, <<47, 47>>) THEN SubSeq(BASE_URL, 1, 6) \o rel
    ELSE IF rel[1] = 47 THEN SubSeq(BASE_URL, 1, 27) \o rel
    ELSE BASE_URL \o rel

\* --------------------------------------------- listing: the item argument
\* json.dumps of one string with ensure_ascii=False: quotes around the text,
\* a backslash before each quote and backslash.
RECURSIVE Escape(_)
Escape(s) ==
    IF \A i \in 1..Len(s) : s[i] # 34 /\ s[i] # 92 THEN s
    ELSE LET i == CHOOSE k \in 1..Len(s) :
                      /\ s[k] = 34 \/ s[k] = 92
                      /\ \A j \in 1..(k - 1) : s[j] # 34 /\ s[j] # 92
         IN SubSeq(s, 1, i - 1) \o <<92, s[i]>> \o Escape(SubSeq(s, i + 1, Len(s)))

Quote(s) == <<34>> \o Escape(s) \o <<34>>

\* json.loads of one string literal.
RECURSIVE Unescape(_)
Unescape(s) ==
    IF \A i \in 1..Len(s) : s[i] # 92 THEN s
    ELSE LET i == CHOOSE k \in 1..Len(s) :
                      s[k] = 92 /\ \A j \in 1..(k - 1) : s[j] # 92
         IN IF i = Len(s) THEN s
            ELSE SubSeq(s, 1, i - 1) \o << s[i + 1] >>
                     \o Unescape(SubSeq(s, i + 2, Len(s)))

Unquote(q) == Unescape(SubSeq(q, 2, Len(q) - 1))

\* json.dumps(arg_payload): the members in insertion order, each value a
\* string literal.
json_dumps(obj) ==
    LET keys == <<"ticker", "url", "period", "doc_type", "publish_date", "period_raw",
                  "doc_type_raw">>
    IN [i \in 1..Len(keys) |-> [key |-> keys[i], text |-> Quote(obj[keys[i]])]]

\* json.loads(raw): a mapping from the members' keys to their texts.
json_loads(encoded) ==
    [k \in {encoded[i].key : i \in 1..Len(encoded)} |->
        Unquote((CHOOSE m \in {encoded[i] : i \in 1..Len(encoded)} : m.key = k).text)]

\* ------------------------------------------------------------ listing
\* Rows of parser.rows after a page was fed: every one has a link (a row
\* without one is never appended), the other cells may be empty. The cell
\* texts are "мсфо" and "РСБУ", "I квартал 2024", "2023" and " 2024 ",
\* "02.05.2024", "01.05.2024 10:30" and "31.02.2024"; the links "u", "/v"
\* and " ".
ListRows ==
    LET ifrs == <<1084, 1089, 1092, 1086>>
        q1 == <<73, 32, 1082, 1074, 1072, 1088, 1090, 1072, 1083, 32, 50, 48, 50, 52>>
        y2023 == <<50, 48, 50, 51>>
        padded == <<32, 50, 48, 50, 52, 32>>
        plain == <<48, 50, 46, 48, 53, 46, 50, 48, 50, 52>>
        timed == <<48, 49, 46, 48, 53, 46, 50, 48, 50, 52, 32, 49, 48, 58, 51, 48>>
        impossible == <<51, 49, 46, 48, 50, 46, 50, 48, 50, 52>>
        Row(t, p, d, u) == [type |-> t, period |-> p, publish_date |-> d, file_url |-> u]
    IN { Row(ifrs, q1, plain, <<117>>),
         Row(ifrs, <<>>, plain, <<117>>),
         Row(WordRas, y2023, timed, <<47, 118>>),
         Row(ifrs, y2023, impossible, <<117>>),
         Row(<<>>, padded, plain, <<117>>),
         Row(ifrs, padded, timed, <<32>>) }

Pages == UNION { [1..n -> ListRows] : n \in 0..MaxPageRows }

\* One iteration of the loop over parser.rows: the Document of a row, or
\* nothing when the row is skipped.
RowDocuments(row, wanted) ==
    LET raw_type == Strip(row.type)
        doc_type == normalize_doc_type(raw_type)
        period_raw == Strip(row.period)
        publish_raw == Strip(row.publish_date)
        url == urljoin(Strip(row.file_url))
        pub_dt == parse_publish_date(publish_raw)
    IN IF doc_type # wanted THEN <<>>
       ELSE IF url = <<>> \/ publish_raw = <<>> THEN <<>>
       ELSE IF ~pub_dt.ok THEN <<>>
       ELSE << [doc_type_raw |-> raw_type,
                doc_type |-> doc_type,
                period_raw |-> period_raw,
                period |-> normalize_period(period_raw),
                publish_date |-> pub_dt,
                url |-> url] >>

\* for row in parser.rows
RECURSIVE PageDocuments(_, _)
PageDocuments(rs, wanted) ==
    IF rs = <<>> THEN <<>>
    ELSE RowDocuments(Head(rs), wanted) \o PageDocuments(Tail(rs), wanted)

\* A sort that puts a document before those of its own publish_date.
RECURSIVE SortNewestFirstReversingTies(_)
SortNewestFirstReversingTies(ds) ==
    IF ds = <<>> THEN <<>>
    ELSE LET sorted == SortNewestFirstReversingTies(SubSeq(ds, 1, Len(ds) - 1))
             d == ds[Len(ds)]
             k == Cardinality({ i \in 1..Len(sorted) :
                                  DateLess(d.publish_date, sorted[i].publish_date) })
         IN SubSeq(sorted, 1, k) \o << d >> \o SubSeq(sorted, k + 1, Len(sorted))

\* docs.sort(key=publish_date, reverse=True): newest first, documents of one
\* publish_date in the order they had.
RECURSIVE SortNewestFirst(_)
SortNewestFirst(ds) ==
    IF ds = <<>> THEN <<>>
    ELSE LET sorted == SortNewestFirst(SubSeq(ds, 1, Len(ds) - 1))
             d == ds[Len(ds)]
             k == Cardinality({ i \in 1..Len(sorted) :
                                  ~DateLess(sorted[i].publish_date, d.publish_date) })
         IN SubSeq(sorted, 1, k) \o << d >> \o SubSeq(sorted, k + 1, Len(sorted))

\* The item of one Document.
DocumentItem(d, tk) ==
    [title |-> d.doc_type \o <<32, 45, 32>> \o d.period,
     subtitle |-> strftime(d.publish_date),
     arg |-> json_dumps([k \in {"ticker", "url", "period", "doc_type", "publish_date",
                                "period_raw", "doc_type_raw"} |->
                CASE k = "ticker" -> Upper(tk)
                  [] k = "url" -> d.url
                  [] k = "period" -> d.period
                  [] k = "doc_type" -> d.doc_type
                  [] k = "publish_date" -> isoformat(d.publish_date)
                  [] k = "period_raw" -> d.period_raw
                  [] k = "doc_type_raw" -> d.doc_type_raw]),
     valid |-> TRUE]

PlainItem(title, subtitle) ==
    [title |-> title, subtitle |-> subtitle, arg |-> <<>>, valid |-> FALSE]

\* The test without the upper-casing of either side.
MatchesCaseSensitive(d, pf) ==
    Strip(pf) = <<>> \/ StartsWith(d.period, Strip(pf))

\* if pf_upper and not doc_period_upper.startswith(pf_upper): continue
Matches(d, pf) ==
    Strip(pf) = <<>> \/ StartsWith(Upper(d.period), Upper(Strip(pf)))

RECURSIVE MatchingItems(_, _, _)
MatchingItems(ds, tk, pf) ==
    IF ds = <<>> THEN <<>>
    ELSE (IF Matches(Head(ds), pf) THEN << DocumentItem(Head(ds), tk) >> ELSE <<>>)
             \o MatchingItems(Tail(ds), tk, pf)

\* The items of the matching documents, or the one item "No reports match
\* the filter" / "No reports found" with the subtitle "<TICKER> - try another
\* period or command."
build_script_filter_items(ds, tk, pf) ==
    IF \E i \in 1..Len(ds) : Matches(ds[i], pf) THEN MatchingItems(ds, tk, pf)
    ELSE << PlainItem(
              IF Strip(pf) # <<>>
              THEN <<78, 111, 32, 114, 101, 112, 111, 114, 116, 115, 32, 109, 97, 116,
                     99, 104, 32, 116, 104, 101, 32, 102, 105, 108, 116, 101, 114>>
              ELSE <<78, 111, 32, 114, 101, 112, 111, 114, 116, 115, 32, 102, 111, 117,
                     110, 100>>,
              Upper(tk) \o <<32, 8212, 32, 116, 114, 121, 32, 97, 110, 111, 116, 104,
                             101, 114, 32, 112, 101, 114, 105, 111, 100, 32, 111, 114,
                             32, 99, 111, 109, 109, 97, 110, 100, 46>>) >>

\* emit_error: the default subtitle is "Check ticker, period, or network
\* connectivity."
emit_error(message, detail) ==
    << PlainItem(message,
                 IF detail # <<>> THEN detail
                 ELSE <<67, 104, 101, 99, 107, 32, 116, 105, 99, 107, 101, 114, 44, 32,
                        112, 101, 114, 105, 111, 100, 44, 32, 111, 114, 32, 110, 101,
                        116, 119, 111, 114, 107, 32, 99, 111, 110, 110, 101, 99, 116,
                        105, 118, 105, 116, 121, 46>>) >>

\* load_payload on an item's arg: the fields that are missing or empty, and
\* the payload when there are none.
Get(data, key) == IF key \in DOMAIN data THEN data[key] ELSE <<>>

load_payload(encoded) ==
    LET data == json_loads(encoded)
        missing == SelectSeq(<<"ticker", "url", "period", "doc_type", "publish_date">>,
                             LAMBDA key : Get(data, key) = <<>>)
    IN [ok |-> missing = <<>>,
        missing |-> missing,
        ticker |-> Get(data, "ticker"),
        url |-> Get(data, "url"),
        period |-> Get(data, "period"),
        doc_type |-> Get(data, "doc_type"),
        publish_date |-> Get(data, "publish_date")]

\* ------------------------------------------------------ listing: main
compact_type(cmd) == IF cmd = "msfo" THEN WordIfrs ELSE WordRas

\* main, up to the first page fetch: no ticker is the error item "Ticker is
\* required" / "Usage: msfo TICKER [PERIOD]", a ticker that tickers.csv does
\* not hold (here any but "SB") ends the process with no output.
main(cmd, tk, pf) ==
    /\ listPc = "idle"
    /\ command' = cmd
    /\ ticker' = tk
    /\ period' = pf
    /\ docs' = <<>>
    /\ fetched' = <<>>
    /\ page_rows' = <<>>
    /\ loaded' = <<>>
    /\ IF tk = <<>>
       THEN /\ items' = emit_error(
                          <<84, 105, 99, 107, 101, 114, 32, 105, 115, 32, 114, 101, 113,
                            117, 105, 114, 101, 100>>,
                          <<85, 115, 97, 103, 101, 58, 32, 109, 115, 102, 111, 32, 84,
                            73, 67, 75, 69, 82, 32, 91, 80, 69, 82, 73, 79, 68, 93>>)
            /\ page_types' = <<>>
            /\ listPc' = "done"
       ELSE IF Upper(tk) # <<83, 66>>
       THEN /\ items' = <<>>
            /\ page_types' = <<>>
            /\ listPc' = "exit"
       ELSE /\ items' = <<>>
            /\ page_types' = IF compact_type(cmd) = WordIfrs THEN <<4, 3>> ELSE <<3>>
            /\ listPc' = "collect"
    /\ UNCHANGED << fsVars, parserVars, periodVars, detectVars, raceVars >>

\* A round that leaves out the documents an earlier page gave already.
fetch_table_htmlDeduplicating(page) ==
    /\ listPc = "collect"
    /\ page_types # <<>>
    /\ fetched' = Append(fetched, Head(page_types))
    /\ page_rows' = page
    /\ page_types' = Tail(page_types)
    /\ LET collected ==
               docs \o SelectSeq(PageDocuments(page, compact_type(command)),
                                 LAMBDA d : \A i \in 1..Len(docs) : docs[i] # d)
           sorted == SortNewestFirst(collected)
       IN IF Tail(page_types) # <<>>
          THEN /\ docs' = collected
               /\ UNCHANGED << items, listPc >>
          ELSE /\ docs' = sorted
               /\ items' = build_script_filter_items(sorted, ticker, period)
               /\ listPc' = "done"
    /\ UNCHANGED << command, ticker, period, loaded >>
    /\ UNCHANGED << fsVars, parserVars, periodVars, detectVars, raceVars >>

\* One round of the loop over page_types with a page that arrives; after the
\* last page the documents are sorted and main prints the items.
fetch_table_html(page) ==
    /\ listPc = "collect"
    /\ page_types # <<>>
    /\ fetched' = Append(fetched, Head(page_types))
    /\ page_rows' = page
    /\ page_types' = Tail(page_types)
    /\ LET collected == docs \o PageDocuments(page, compact_type(command))
           sorted == SortNewestFirst(collected)
       IN IF Tail(page_types) # <<>>
          THEN /\ docs' = collected
               /\ UNCHANGED << items, listPc >>
          ELSE /\ docs' = sorted
               /\ items' = build_script_filter_items(sorted, ticker, period)
               /\ listPc' = "done"
    /\ UNCHANGED << command, ticker, period, loaded >>
    /\ UNCHANGED << fsVars, parserVars, periodVars, detectVars, raceVars >>

\* A page fetch that raises, were the loop left with a break instead: main
\* would print the items of the documents collected so far.
FetchFailsKeepingDocuments ==
    /\ listPc = "collect"
    /\ page_types # <<>>
    /\ fetched' = Append(fetched, Head(page_types))
    /\ items' = build_script_filter_items(SortNewestFirst(docs), ticker, period)
    /\ listPc' = "done"
    /\ UNCHANGED << command, ticker, period, page_types, page_rows, docs, loaded >>
    /\ UNCHANGED << fsVars, parserVars, periodVars, detectVars, raceVars >>

\* A page fetch that raises: main's except clause prints the one error item
\* "Failed to fetch reports" with the exception's text, here "HTTP Error 503".
FetchFails ==
    /\ listPc = "collect"
    /\ page_types # <<>>
    /\ fetched' = Append(fetched, Head(page_types))
    /\ items' = emit_error(
                   <<70, 97, 105, 108, 101, 100, 32, 116, 111, 32, 102, 101, 116, 99,
                     104, 32, 114, 101, 112, 111, 114, 116, 115>>,
                   <<72, 84, 84, 80, 32, 69, 114, 114, 111, 114, 32, 53, 48, 51>>)
    /\ listPc' = "done"
    /\ UNCHANGED << command, ticker, period, page_types, page_rows, docs, loaded >>
    /\ UNCHANGED << fsVars, parserVars, periodVars, detectVars, raceVars >>

\* The user picks a selectable item and its arg goes to load_payload.
SelectItem(i) ==
    /\ listPc = "done"
    /\ i \in 1..Len(items)
    /\ items[i].valid
    /\ loaded = <<>>
    /\ loaded' = << [item |-> i] @@ load_payload(items[i].arg) >>
    /\ UNCHANGED << listPc, command, ticker, period, page_types, fetched, page_rows,
                    docs, items >>
    /\ UNCHANGED << fsVars, parserVars, periodVars, detectVars, raceVars >>

\* One parser callback, on any event an HTML text can produce.
StartTagEvent(tag, cls, href) ==
    /\ fed < MaxEvents
    /\ Handle(StartTag(tag, cls, href))
    /\ UNCHANGED << fsVars, input, listVars, periodVars, detectVars, raceVars >>

EndTagEvent(tag) ==
    /\ fed < MaxEvents
    /\ Handle(EndTag(tag))
    /\ UNCHANGED << fsVars, input, listVars, periodVars, detectVars, raceVars >>

DataEvent(text) ==
    /\ fed < MaxEvents
    /\ Handle(Data(text))
    /\ UNCHANGED << fsVars, input, listVars, periodVars, detectVars, raceVars >>

\* A well-formed row of the files table as the page writes it: six cells,
\* or seven when extra is set; the text of a cell may be split by markup into
\* several chunks; the link cell holds one file-link anchor.
CellTexts == { <<>>, << TextA >>, << TextPaddedB, TextBlank, TextA >> }

RowSources ==
    [type : CellTexts, period : { << TextPaddedB >> },
     publish_date : { << TextA >>, << TextA, TextPaddedB >> },
     href : { HrefU, HrefV }, extra : BOOLEAN]

Documents == UNION { [1..n -> RowSources] : n \in 0..MaxRows }

DataEvents(chunks) == [i \in 1..Len(chunks) |-> Data(chunks[i])]

Cell(content) == << StartTag("td", <<>>, <<>>) >> \o content \o << EndTag("td") >>

RenderRow(r) ==
    << StartTag("tr", <<>>, <<>>) >>
    \o Cell(IF r.extra THEN << Data(TextA) >> ELSE <<>>)
    \o Cell(DataEvents(r.type))
    \o Cell(DataEvents(r.period))
    \o Cell(IF r.extra THEN << StartTag("a", <<>>, HrefU), Data(TextA) >> ELSE <<>>)
    \o Cell(DataEvents(r.publish_date))
    \o Cell(<< StartTag("a", ClsFileLink, r.href), Data(TextA) >>)
    \o (IF r.extra THEN Cell(<< Data(TextPaddedB) >>) ELSE <<>>)
    \o << EndTag("tr") >>

RECURSIVE RenderRows(_)
RenderRows(doc) ==
    IF doc = <<>> THEN <<>> ELSE RenderRow(Head(doc)) \o RenderRows(Tail(doc))

Render(doc) ==
    << StartTag("table", ClsFilesTable, <<>>) >> \o RenderRows(doc)
    \o << EndTag("table") >>

\* parser.feed(html) on a well-formed document, one event at a time.
FeedDocument ==
    /\ fed < Len(Render(input))
    /\ Handle(Render(input)[fed + 1])
    /\ UNCHANGED << fsVars, input, listVars, periodVars, detectVars, raceVars >>

\* ------------------------------------------------------ specifications
\* The cache as the first run finds it.
CacheInit ==
    /\ raw = [e \in Exts |-> NoFile]
    /\ dirExists = FALSE
    /\ dirFiles = {}
    /\ dirVerified = TRUE
    /\ tools \in SUBSET Tools
    /\ pc = "idle"
    /\ payload = [ticker |-> KeyTicker, url |-> "u1", doc_type |-> KeyDocType,
                  period |-> KeyPeriod, publish_date |-> KeyPublishDate]
    /\ file_path = "bin"
    /\ file_type = ""
    /\ log = <<>>
    /\ results = <<>>
    /\ shortcut = FALSE
    /\ staged = <<>>
    /\ same = FALSE

\* FilesTableParser.__init__
ParserInit ==
    /\ in_files_table = FALSE
    /\ in_row = FALSE
    /\ current_cell_index = -1
    /\ current_row = EmptyRow
    /\ rows = <<>>
    /\ in_file_cell = FALSE
    /\ last = NoEvent
    /\ fed = 0

\* The listing script before main runs.
ListInit ==
    /\ listPc = "idle"
    /\ command = "msfo"
    /\ ticker = <<>>
    /\ period = <<>>
    /\ page_types = <<>>
    /\ fetched = <<>>
    /\ page_rows = <<>>
    /\ docs = <<>>
    /\ items = <<>>
    /\ loaded = <<>>

\* The other scripts call normalize_period inside their own steps.
PeriodIdle ==
    /\ periodPc = "start"
    /\ token = <<>>
    /\ token_again = <<>>
    /\ period_text = <<>>

\* ... and detect_file_type likewise.
Procs == { 1, 2 }

\* No concurrent invocation is running.
RaceIdle ==
    /\ procPc = [p \in Procs |-> "done"]
    /\ procPath = [p \in Procs |-> "bin"]
    /\ procType = [p \in Procs |-> ""]
    /\ procBody = [p \in Procs |-> NoFile]
    /\ procHandle = [p \in Procs |-> ""]
    /\ procResult = [p \in Procs |-> ""]
    /\ writers = <<>>

DetectIdle ==
    /\ file_header = <<>>
    /\ file_name = <<>>
    /\ detected = ""

\* The other scripts leave the cache alone.
CacheIdle ==
    /\ CacheInit
    /\ tools = {}

\* The retrieval script: runs of ensure_pdf_cached over one cache slot.
InitCache ==
    /\ CacheInit
    /\ ParserInit
    /\ input = <<>>
    /\ ListInit
    /\ PeriodIdle
    /\ DetectIdle
    /\ RaceIdle

NextCache ==
    \/ \E p \in Payloads : Invoke(p)
    \/ \E t \in Tools : InstallTool(t)
    \/ Locate
    \/ CheckCache
    \/ download_file
    \/ Detect
    \/ Rename
    \/ CopyPdf
    \/ extract_zip
    \/ extract_7z
    \/ extract_rar
    \/ stage_pdf

Spec == InitCache /\ [][NextCache]_vars

\* FilesTableParser fed any sequence of events.
InitParser ==
    /\ CacheIdle
    /\ ParserInit
    /\ input = <<>>
    /\ ListInit
    /\ PeriodIdle
    /\ DetectIdle
    /\ RaceIdle

NextParser ==
    \/ \E ev \in { e \in Events : e.kind = "start" } :
           StartTagEvent(ev.tag, ev.cls, ev.href)
    \/ \E ev \in { e \in Events : e.kind = "end" } : EndTagEvent(ev.tag)
    \/ \E ev \in { e \in Events : e.kind = "data" } : DataEvent(ev.data)

SpecParser == InitParser /\ [][NextParser]_vars

\* FilesTableParser fed a well-formed files table.
InitDocument ==
    /\ CacheIdle
    /\ ParserInit
    /\ input \in Documents
    /\ ListInit
    /\ PeriodIdle
    /\ DetectIdle
    /\ RaceIdle

NextDocument == FeedDocument

SpecDocument == InitDocument /\ [][NextDocument]_vars

\* The listing script: one run of main on a command, a ticker ("sb", "zz" or
\* none) and a period filter (none, " 2024q " or "2023"), then the pick of an
\* item.
InitList ==
    /\ CacheIdle
    /\ ParserInit
    /\ input = <<>>
    /\ ListInit
    /\ PeriodIdle
    /\ DetectIdle
    /\ RaceIdle

NextList ==
    \/ \E cmd \in {"msfo", "rsbu"},
          tk \in { <<115, 98>>, <<122, 122>>, <<>> },
          pf \in { <<>>, <<32, 50, 48, 50, 52, 113, 32>>, <<50, 48, 50, 51>> } : main(cmd, tk, pf)
    \/ \E page \in Pages : fetch_table_html(page)
    \/ FetchFails
    \/ \E i \in 1..(2 * MaxPageRows) : SelectItem(i)

SpecList == InitList /\ [][NextList]_vars

\* ------------------------------------------------- normalize_period alone
\* Wordings of the portal's reporting-period cell: years, quarters in Roman
\* and Arabic numerals, the half-year, month counts and a filler word.
PeriodPhrases ==
    { <<50, 48, 50, 52, 32>>,   \* "2024 "
      <<49, 57, 57, 57, 32>>,   \* "1999 "
      <<73, 32, 1082, 1074, 1072, 1088, 1090, 1072, 1083, 32>>,   \* "I квартал "
      <<73, 86, 32, 1050, 1042, 1040, 1056, 1058, 1040, 1051, 32>>,   \* "IV КВАРТАЛ "
      <<86, 32, 1082, 1074, 1072, 1088, 1090, 1072, 1083, 32>>,   \* "V квартал "
      <<53, 32, 1082, 1074, 1072, 1088, 1090, 1072, 1083, 32>>,   \* "5 квартал "
      <<1087, 1086, 1083, 1091, 1075, 1086, 1076, 1080, 1077, 32>>,   \* "полугодие "
      <<54, 32, 1084, 1077, 1089, 1103, 1094, 1077, 1074, 32>>,   \* "6 месяцев "
      <<57, 32, 1084, 1077, 1089, 1103, 1094, 1077, 1074, 32>>,   \* "9 месяцев "
      <<32, 1075, 1086, 1076, 1072>> }   \* " года"

MaxWords == 3

RECURSIVE Join(_)
Join(ws) == IF ws = <<>> THEN <<>> ELSE Head(ws) \o Join(Tail(ws))

PeriodTexts ==
    { Join(ws) : ws \in UNION { [1..n -> PeriodPhrases] : n \in 0..MaxWords } }

\* One call of normalize_period on a text.
Normalize ==
    /\ periodPc = "start"
    /\ token' = normalize_period(period_text)
    /\ periodPc' = "once"
    /\ UNCHANGED << period_text, token_again >>
    /\ UNCHANGED << fsVars, parserVars, listVars, detectVars, raceVars >>

\* A second call, on the token the first call returned.
Renormalize ==
    /\ periodPc = "once"
    /\ token_again' = normalize_period(token)
    /\ periodPc' = "twice"
    /\ UNCHANGED << period_text, token >>
    /\ UNCHANGED << fsVars, parserVars, listVars, detectVars, raceVars >>

InitPeriod ==
    /\ CacheIdle
    /\ ParserInit
    /\ input = <<>>
    /\ ListInit
    /\ periodPc = "start"
    /\ token = <<>>
    /\ token_again = <<>>
    /\ period_text \in PeriodTexts
    /\ DetectIdle
    /\ RaceIdle

NextPeriod ==
    \/ Normalize
    \/ Renormalize

SpecPeriod == InitPeriod /\ [][NextPeriod]_vars

\* --------------------------------------- direct calls of the cache helpers
\* detect_file_type(path)
DetectFile ==
    /\ file_name # <<>>
    /\ detected = ""
    /\ detected' = detect_file_type(file_header, Suffix(file_name))
    /\ UNCHANGED << file_header, file_name >>
    /\ UNCHANGED << fsVars, parserVars, listVars, periodVars, raceVars >>

\* Files an extraction directory can hold: PDFs at several depths and in
\* either case, a file without a suffix, a file inside a directory named like
\* a PDF, and a link.
StageFiles ==
    { [path |-> <<NameA, NameRPdf>>, link |-> FALSE],
      [path |-> <<NameB, NameRPdf>>, link |-> FALSE],
      [path |-> <<NameRPdfUpper>>, link |-> FALSE],
      [path |-> <<NameB, NameA, NameRPdfUpper>>, link |-> FALSE],
      [path |-> <<NameEvil>>, link |-> FALSE],
      [path |-> << <<100, 46, 112, 100, 102>>, NameEvil >>, link |-> FALSE],
      [path |-> <<NameLnk>>, link |-> TRUE] }

\* A call of detect_file_type on a file with some leading bytes (a signature,
\* a signature cut short, shifted or followed by more bytes, or none) and a
\* name (r.pdf, R.PDF, a.zip, a.Zip, a.7z, a.rar, a.RAR, a.bin, evil, .pdf, a.pdf.zip, a.tar.gz), or a call of
\* stage_pdf on an extraction directory and a final path that is absent or
\* already holds a file.
InitDirect ==
    /\ ParserInit
    /\ input = <<>>
    /\ ListInit
    /\ RaceIdle
    /\ PeriodIdle
    /\ \/ /\ CacheIdle
          /\ file_header \in
                 { <<>>, HdrJunk, SigPdf, SigPdf \o <<49, 46, 55, 10, 37>>,
                   <<32>> \o SigPdf, SigZipLocal, SigZipCentral, SigZipSpanned,
                   <<80, 75, 1, 2>>, Sig7z, SigRar4, SigRar5, SigRar5 \o <<1>>,
                   SubSeq(SigRar4, 1, 6) }
          /\ file_name \in
                 { <<114, 46, 112, 100, 102>>,
            <<82, 46, 80, 68, 70>>,
            <<97, 46, 122, 105, 112>>,
            <<97, 46, 90, 105, 112>>,
            <<97, 46, 55, 122>>,
            <<97, 46, 114, 97, 114>>,
            <<97, 46, 82, 65, 82>>,
            <<97, 46, 98, 105, 110>>,
            <<101, 118, 105, 108>>,
            <<46, 112, 100, 102>>,
            <<97, 46, 112, 100, 102, 46, 122, 105, 112>>,
            <<97, 46, 116, 97, 114, 46, 103, 122>> }
          /\ detected = ""
       \/ /\ DetectIdle
          /\ raw \in { [e \in Exts |-> IF e = "pdf" THEN f ELSE NoFile] :
                            f \in { NoFile, [ExtractedPdf EXCEPT !.hdr = HdrJunk] } }
          /\ dirExists = TRUE
          /\ dirFiles \in SUBSET StageFiles
          /\ dirVerified = TRUE
          /\ tools = {}
          /\ pc = "stage"
          /\ payload \in Payloads
          /\ file_path = "zip"
          /\ file_type = "zip"
          /\ log = <<>>
          /\ results = <<>>
          /\ shortcut = FALSE
          /\ staged = <<>>
          /\ same = FALSE

NextDirect ==
    \/ DetectFile
    \/ stage_pdf

SpecDirect == InitDirect /\ [][NextDirect]_vars

\* ------------------------------------- two invocations at the same time
\* What a single call keeps to itself; the concurrent invocations leave it.
callVars == << dirVerified, tools, pc, payload, file_path, file_type, log,
               results, shortcut, staged, same >>

\* What the portal serves to the two invocations: a PDF or a zip archive of
\* at most one entry.
RaceBodies ==
    { b \in Blobs : b.hdr \in { SigPdf, SigZipLocal } /\ Len(b.entries) <= 1 }

\* A file just created or truncated by open("wb").
EmptyFile == [exists |-> TRUE, hdr |-> <<>>, entries |-> <<>>, complete |-> FALSE]

RaceGoto(p, label) == procPc' = [procPc EXCEPT ![p] = label]

\* The invocation returns ("ok") or raises.
RaceFinish(p, res) ==
    /\ procPc' = [procPc EXCEPT ![p] = "done"]
    /\ procResult' = [procResult EXCEPT ![p] = res]

\* file_path = next((p for p in candidates if p.exists()), base.bin)
RaceLocate(p) ==
    /\ procPc[p] = "locate"
    /\ procPath' = [procPath EXCEPT ![p] = FirstCandidate(raw)]
    /\ RaceGoto(p, "check")
    /\ UNCHANGED << raw, dirExists, dirFiles, procType, procBody, procHandle,
                    procResult, writers >>
    /\ UNCHANGED << callVars, parserVars, listVars, periodVars, detectVars >>

\* An existence check that also waits while the other invocation downloads.
RaceCheckExclusive(p) ==
    /\ procPc[p] = "check"
    /\ \A q \in Procs \ {p} : procPc[q] \notin { "download", "write", "close" }
    /\ IF raw["pdf"].exists
       THEN /\ RaceFinish(p, "ok")
       ELSE /\ RaceGoto(p, IF raw[procPath[p]].exists THEN "detect" ELSE "download")
            /\ UNCHANGED procResult
    /\ UNCHANGED << raw, dirExists, dirFiles, procPath, procType, procBody,
                    procHandle, writers >>
    /\ UNCHANGED << callVars, parserVars, listVars, periodVars, detectVars >>

\* if not pdf_cache.exists(): if not file_path.exists(): ...  /  return pdf_cache
RaceCheck(p) ==
    /\ procPc[p] = "check"
    /\ IF raw["pdf"].exists
       THEN /\ RaceFinish(p, "ok")
       ELSE /\ RaceGoto(p, IF raw[procPath[p]].exists THEN "detect" ELSE "download")
            /\ UNCHANGED procResult
    /\ UNCHANGED << raw, dirExists, dirFiles, procPath, procType, procBody,
                    procHandle, writers >>
    /\ UNCHANGED << callVars, parserVars, listVars, periodVars, detectVars >>

\* download_file up to the opening of dest: the request fails, or the body
\* is received and dest is created or truncated.
RaceOpen(p) ==
    /\ procPc[p] = "download"
    /\ \/ /\ RaceFinish(p, "FetchError")
          /\ UNCHANGED << raw, procBody, procHandle >>
       \/ \E b \in RaceBodies :
            /\ procBody' = [procBody EXCEPT ![p] = b]
            /\ raw' = [raw EXCEPT ![procPath[p]] = EmptyFile]
            /\ procHandle' = [procHandle EXCEPT ![p] = procPath[p]]
            /\ RaceGoto(p, "write")
            /\ UNCHANGED procResult
    /\ UNCHANGED << dirExists, dirFiles, procPath, procType, writers >>
    /\ UNCHANGED << callVars, parserVars, listVars, periodVars, detectVars >>

\* download_file writing: the leading bytes of the body are in the open
\* file, wherever it is found now; or the copy breaks off.
RaceWrite(p) ==
    /\ procPc[p] = "write"
    /\ \/ /\ raw' = [raw EXCEPT ![procHandle[p]] =
                                    [procBody[p] EXCEPT !.complete = FALSE]]
          /\ RaceGoto(p, "close")
          /\ UNCHANGED << procHandle, procResult >>
       \/ /\ RaceFinish(p, "FetchError")
          /\ procHandle' = [procHandle EXCEPT ![p] = ""]
          /\ UNCHANGED raw
    /\ UNCHANGED << dirExists, dirFiles, procPath, procType, procBody, writers >>
    /\ UNCHANGED << callVars, parserVars, listVars, periodVars, detectVars >>

\* download_file writing the rest and closing: the file holds the body; when
\* the other invocation truncated the same file or wrote other bytes to it in
\* between, it can also hold a damaged mix of the two writes.
RaceClose(p) ==
    /\ procPc[p] = "close"
    /\ \E f \in { procBody[p] } \cup
                ( IF raw[procHandle[p]] \in
                         { [procBody[p] EXCEPT !.complete = FALSE], procBody[p] }
                  THEN {} ELSE Truncated(procBody[p]) ) :
         raw' = [raw EXCEPT ![procHandle[p]] = f]
    /\ procHandle' = [procHandle EXCEPT ![p] = ""]
    /\ writers' = Append(writers, p)
    /\ RaceGoto(p, "detect")
    /\ UNCHANGED << dirExists, dirFiles, procPath, procType, procBody, procResult >>
    /\ UNCHANGED << callVars, parserVars, listVars, periodVars, detectVars >>

\* file_type = detect_file_type(file_path)
RaceDetect(p) ==
    /\ procPc[p] = "detect"
    /\ LET f == raw[procPath[p]]
           t == detect_file_type(f.hdr, ExtSuffix(procPath[p]))
       IN IF ~f.exists
          THEN /\ RaceFinish(p, "FileNotFoundError")
               /\ UNCHANGED procType
          ELSE IF t = "unsupported"
          THEN /\ RaceFinish(p, "UnsupportedFileType")
               /\ UNCHANGED procType
          ELSE /\ procType' = [procType EXCEPT ![p] = t]
               /\ RaceGoto(p, "rename")
               /\ UNCHANGED procResult
    /\ UNCHANGED << raw, dirExists, dirFiles, procPath, procBody, procHandle,
                    writers >>
    /\ UNCHANGED << callVars, parserVars, listVars, periodVars, detectVars >>

\* if file_path != final_path and not final_path.exists(): file_path.rename(...)
\* A file held open by an invocation is found under the new name afterwards.
RaceRename(p) ==
    /\ procPc[p] = "rename"
    /\ LET final_path == procType[p]
           next == IF procType[p] = "pdf" THEN "copy" ELSE "extract"
       IN IF procPath[p] # final_path /\ ~raw[final_path].exists
          THEN IF ~raw[procPath[p]].exists
               THEN /\ RaceFinish(p, "FileNotFoundError")
                    /\ UNCHANGED << raw, procPath, procHandle >>
               ELSE /\ raw' = [raw EXCEPT ![final_path] = raw[procPath[p]],
                                          ![procPath[p]] = NoFile]
                    /\ procPath' = [procPath EXCEPT ![p] = final_path]
                    /\ procHandle' = [q \in Procs |->
                                        IF procHandle[q] = procPath[p]
                                        THEN final_path ELSE procHandle[q]]
                    /\ RaceGoto(p, next)
                    /\ UNCHANGED procResult
          ELSE /\ RaceGoto(p, next)
               /\ UNCHANGED << raw, procPath, procHandle, procResult >>
    /\ UNCHANGED << dirExists, dirFiles, procType, procBody, writers >>
    /\ UNCHANGED << callVars, parserVars, listVars, periodVars, detectVars >>

\* shutil.copy2(file_path, pdf_cache)
RaceCopy(p) ==
    /\ procPc[p] = "copy"
    /\ IF procPath[p] = "pdf"
       THEN /\ RaceFinish(p, "SameFileError")
            /\ UNCHANGED raw
       ELSE IF ~raw[procPath[p]].exists
       THEN /\ RaceFinish(p, "FileNotFoundError")
            /\ UNCHANGED raw
       ELSE /\ raw' = [raw EXCEPT !["pdf"] = raw[procPath[p]]]
            /\ RaceFinish(p, "ok")
    /\ UNCHANGED << dirExists, dirFiles, procPath, procType, procBody,
                    procHandle, writers >>
    /\ UNCHANGED << callVars, parserVars, listVars, periodVars, detectVars >>

\* _extract_zip: if _has_extracted_content(target_dir): return; target_dir.mkdir
RaceExtract(p) ==
    /\ procPc[p] = "extract"
    /\ IF has_extracted_content(dirExists, dirFiles)
       THEN /\ RaceGoto(p, "stage")
            /\ UNCHANGED dirExists
       ELSE /\ RaceGoto(p, "unzip")
            /\ dirExists' = TRUE
    /\ UNCHANGED << raw, dirFiles, procPath, procType, procBody, procHandle,
                    procResult, writers >>
    /\ UNCHANGED << callVars, parserVars, listVars, periodVars, detectVars >>

\* _extract_zip: open the archive, validate the entries, extractall, check.
RaceUnzip(p) ==
    /\ procPc[p] = "unzip"
    /\ LET a == raw[procPath[p]]
           files == dirFiles \cup Written(a.entries, Len(a.entries), FALSE)
       IN IF ~a.exists
          THEN /\ RaceFinish(p, "FileNotFoundError")
               /\ UNCHANGED dirFiles
          ELSE IF ~a.complete
          THEN /\ RaceFinish(p, "BadZipFile")
               /\ UNCHANGED dirFiles
          ELSE IF FirstUnsafe(a.entries) # 0
          THEN /\ RaceFinish(p, "UnsafeEntry")
               /\ UNCHANGED dirFiles
          ELSE /\ dirFiles' = files
               /\ IF UnsafePaths(files) # {}
                  THEN RaceFinish(p, "UnsafePath")
                  ELSE /\ RaceGoto(p, "stage")
                       /\ UNCHANGED procResult
    /\ UNCHANGED << raw, dirExists, procPath, procType, procBody, procHandle,
                    writers >>
    /\ UNCHANGED << callVars, parserVars, listVars, periodVars, detectVars >>

\* stage_pdf: if final_pdf.exists(): return; pdfs = sorted(...); if not pdfs: raise
RaceStage(p) ==
    /\ procPc[p] = "stage"
    /\ IF raw["pdf"].exists
       THEN RaceFinish(p, "ok")
       ELSE IF PdfsUnder(dirFiles) = {}
       THEN RaceFinish(p, "NoPdfInArchive")
       ELSE /\ RaceGoto(p, "install")
            /\ UNCHANGED procResult
    /\ UNCHANGED << raw, dirExists, dirFiles, procPath, procType, procBody,
                    procHandle, writers >>
    /\ UNCHANGED << callVars, parserVars, listVars, periodVars, detectVars >>

\* stage_pdf: shutil.copy2(pdfs[0], final_pdf); return final_pdf
RaceInstall(p) ==
    /\ procPc[p] = "install"
    /\ raw' = [raw EXCEPT !["pdf"] = ExtractedPdf]
    /\ RaceFinish(p, "ok")
    /\ UNCHANGED << dirExists, dirFiles, procPath, procType, procBody,
                    procHandle, writers >>
    /\ UNCHANGED << callVars, parserVars, listVars, periodVars, detectVars >>

\* Both invocations were started for the same key on an empty cache.
InitRace ==
    /\ CacheIdle
    /\ ParserInit
    /\ input = <<>>
    /\ ListInit
    /\ PeriodIdle
    /\ DetectIdle
    /\ procPc = [p \in Procs |-> "locate"]
    /\ procPath = [p \in Procs |-> "bin"]
    /\ procType = [p \in Procs |-> ""]
    /\ procBody = [p \in Procs |-> NoFile]
    /\ procHandle = [p \in Procs |-> ""]
    /\ procResult = [p \in Procs |-> ""]
    /\ writers = <<>>

NextRace ==
    \/ \E p \in Procs : RaceLocate(p)
    \/ \E p \in Procs : RaceCheck(p)
    \/ \E p \in Procs : RaceOpen(p)
    \/ \E p \in Procs : RaceWrite(p)
    \/ \E p \in Procs : RaceClose(p)
    \/ \E p \in Procs : RaceDetect(p)
    \/ \E p \in Procs : RaceRename(p)
    \/ \E p \in Procs : RaceCopy(p)
    \/ \E p \in Procs : RaceExtract(p)
    \/ \E p \in Procs : RaceUnzip(p)
    \/ \E p \in Procs : RaceStage(p)
    \/ \E p \in Procs : RaceInstall(p)

SpecRace == InitRace /\ [][NextRace]_vars

\* ------------------------------------------------------------ properties
LastResult == results[Len(results)]

PdfSuffix == <<46, 112, 100, 102>>

\* C1: when a call follows a successful call with the same payload, it is a
\* pure cache hit: it succeeds with the same path and has performed no
\* download, no type detection, no rename, copy or extraction at all.
C1_SecondCallIsPureCacheHit ==
    (pc = "idle" /\ Len(results) >= 2 /\ same /\ results[Len(results) - 1].ok)
        => /\ LastResult.ok
           /\ LastResult.path = results[Len(results) - 1].path
           /\ log = <<>>

C1_Witness ==
    /\ pc = "idle"
    /\ Len(results) = 2
    /\ same
    /\ results[1].ok
    /\ results[2].ok
    /\ results[2].path = results[1].path
    /\ log = <<>>
    /\ staged = <<NameA, NameRPdf>>

\* C2: starting from an empty cache, a first call whose download succeeded
\* and was detected as a PDF returns the cache PDF path without an error.
C2_PdfFirstCallSucceeds ==
    (pc = "idle" /\ Len(results) = 1 /\ file_type = "pdf")
        => /\ LastResult.ok
           /\ LastResult.path = pdf_cache(payload)

\* C3: zip entries are all validated before any is extracted: when some entry
\* of the opened archive resolves outside target_dir, _extract_zip raises the
\* unsafe-entry error naming the first such entry, having written no entry and
\* no file of the cache.
C3_ZipValidatedBeforeExtract ==
    [][ ( /\ pc = "extract"
          /\ file_type = "zip"
          /\ ~(dirExists /\ dirFiles # {})
          /\ raw[file_path].complete
          /\ \E i \in 1..Len(raw[file_path].entries) :
                 Resolve(raw[file_path].entries[i].name).up > 0 )
        => ( /\ pc' = "idle"
             /\ Len(results') = Len(results) + 1
             /\ results'[Len(results')].err = "UnsafeEntry"
             /\ \E i \in 1..Len(raw[file_path].entries) :
                    /\ results'[Len(results')].what = raw[file_path].entries[i].name
                    /\ Resolve(raw[file_path].entries[i].name).up > 0
                    /\ \A j \in 1..(i - 1) :
                           Resolve(raw[file_path].entries[j].name).up = 0
             /\ dirFiles' = {}
             /\ raw' = raw
             /\ staged' = staged ) ]_vars

C3_Witness ==
    /\ pc = "idle"
    /\ results # <<>>
    /\ LastResult.err = "UnsafeEntry"
    /\ LastResult.what = <<DotDot, DotDot, NameEvil>>
    /\ raw["zip"].exists
    /\ Len(raw["zip"].entries) = 2
    /\ raw["zip"].entries[1].name = <<NameA, NameRPdf>>
    /\ dirExists
    /\ dirFiles = {}

\* C4: a call reports success only if the content of the extraction
\* directory comes from an extraction that ran to completion and passed the
\* post-extraction containment check.
C4_SuccessOnlyAfterVerifiedExtraction ==
    (pc = "idle" /\ results # <<>> /\ LastResult.ok) => dirVerified

\* C5: for zip, 7z and rar alike, extraction on an existing non-empty
\* target_dir returns at once: directory, archive and cache are unchanged,
\* nothing is opened, imported or run, and the call goes on to staging.
C5_ExtractIdempotentOnPopulatedDir ==
    [][ ( /\ pc = "extract"
          /\ file_type \in { "zip", "7z", "rar" }
          /\ dirExists
          /\ dirFiles # {} )
        => ( /\ dirFiles' = dirFiles
             /\ dirExists' = dirExists
             /\ raw' = raw
             /\ log' = log
             /\ results' = results
             /\ pc' = "stage" ) ]_vars

C5_Witness ==
    /\ pc = "stage"
    /\ shortcut
    /\ file_type = "rar"
    /\ log = << "detect_file_type" >>
    /\ dirFiles # {}

\* C6: a failure that wrote nothing (zip validation rejected an entry, py7zr
\* missing, neither RAR tool present) leaves target_dir empty and the next
\* extract call does not take the shortcut; and a call that took the shortcut
\* succeeds only with a PDF present under the directory, failing with the
\* no-PDF error otherwise.
NoContentFailure(r) ==
    \/ r.err = "UnsafeEntry"
    \/ r.err = "MissingDependency"
    \/ r.err = "ExtractionFailed" /\ r.diag = << "bsdtar not found", "unrar not found" >>

PdfPresent ==
    \E f \in dirFiles :
        /\ ~f.link
        /\ f.path # <<>>
        /\ Lower(Suffix(f.path[Len(f.path)])) = PdfSuffix

C6_NoFalseAlreadyExtracted ==
    /\ (pc = "idle" /\ results # <<>> /\ NoContentFailure(LastResult))
           => dirFiles = {}
    /\ (pc = "stage" /\ results # <<>> /\ NoContentFailure(LastResult))
           => ~shortcut
    /\ (pc = "idle" /\ shortcut)
           => IF PdfPresent THEN LastResult.ok
              ELSE LastResult.err = "NoPdfInArchive"

C6_Witness ==
    /\ pc = "stage"
    /\ ~shortcut
    /\ results # <<>>
    /\ LastResult.err = "MissingDependency"
    /\ dirFiles # {}

\* The text a cell shows: its non-blank chunks, each trimmed, one space apart.
RECURSIVE CellText(_)
CellText(chunks) ==
    IF chunks = <<>> THEN <<>>
    ELSE LET rest == CellText(Tail(chunks))
             head == Strip(Head(chunks))
         IN IF head = <<>> THEN rest
            ELSE IF rest = <<>> THEN head
            ELSE head \o <<32>> \o rest

\* C8: fed a files table of N well-formed rows, the parser ends with exactly
\* N rows, in document order, each with the type, period and publish-date
\* text and the link URL of its own source row.
C8_WellFormedRowsAllParsed ==
    (fed = Len(Render(input)))
        => /\ Len(rows) = Len(input)
           /\ \A i \in 1..Len(input) :
                  /\ rows[i].type = CellText(input[i].type)
                  /\ rows[i].period = CellText(input[i].period)
                  /\ rows[i].publish_date = CellText(input[i].publish_date)
                  /\ rows[i].file_url = input[i].href

C8_Witness ==
    /\ Len(input) = 2
    /\ fed = Len(Render(input))
    /\ Len(rows) = 2
    /\ rows[1].file_url = HrefV
    /\ rows[2].file_url = HrefU
    /\ rows[1].type = << 66, 32, 65 >>
    /\ rows[2].type = <<>>
    /\ input[1].extra

\* C9: every row in rows has a non-empty file_url, and rows changes only by
\* appending current_row when a tr end tag is handled inside a row whose
\* link URL was captured, whatever its other cells hold.
C9_RowsHaveLink ==
    [][ /\ \A i \in 1..Len(rows') : rows'[i].file_url # <<>>
        /\ rows' # rows
             => /\ last' = EndTag("tr")
                /\ in_row
                /\ current_row.file_url # <<>>
                /\ rows' = Append(rows, current_row) ]_vars

C9_Witness ==
    /\ last = EndTag("tr")
    /\ ~in_row
    /\ current_row.type # <<>>
    /\ current_row.file_url = <<>>
    /\ rows = <<>>
    /\ fed > 0

\* C10: a step that is not a row start changes current_row.type only by text
\* in column 1, period only by text in column 2, publish_date only by text in
\* column 4, and file_url only by a file-link anchor in column 5; nothing
\* handled in another column changes the row.
C10_ColumnsFixedByIndex ==
    [][ ~(last'.kind = "start" /\ last'.tag = "tr")
        => /\ current_row'.type # current_row.type
                => last'.kind = "data" /\ current_cell_index = 1
           /\ current_row'.period # current_row.period
                => last'.kind = "data" /\ current_cell_index = 2
           /\ current_row'.publish_date # current_row.publish_date
                => last'.kind = "data" /\ current_cell_index = 4
           /\ current_row'.file_url # current_row.file_url
                => /\ last'.kind = "start"
                   /\ last'.tag = "a"
                   /\ Contains(last'.cls, ClsFileLink)
                   /\ current_cell_index = 5 ]_vars

\* C7: every selectable item's arg loads in the retrieval step with no
\* missing field and gives back the ticker, url, period, doc_type and
\* publish_date that the listing encoded for its Document.
C7_ArgRoundTrips ==
    \A i \in 1..Len(loaded) :
        LET d == SelectSeq(docs, LAMBDA x : Matches(x, period))[loaded[i].item]
        IN /\ loaded[i].ok
           /\ loaded[i].ticker = Upper(ticker)
           /\ loaded[i].url = d.url
           /\ loaded[i].period = d.period
           /\ loaded[i].doc_type = d.doc_type
           /\ loaded[i].publish_date = isoformat(d.publish_date)

\* The step of collect_documents that returns: the last page has arrived.
Returns == page_types # <<>> /\ page_types' = <<>> /\ listPc' = "done"

\* The documents in the order the loops collected them: those of the earlier
\* page, then those of the rows of the page fed last, row by row.
Collected == docs \o PageDocuments(page_rows', compact_type(command))

WithDate(ds, dt) == SelectSeq(ds, LAMBDA d : d.publish_date = dt)

\* C11: collect_documents returns the documents newest first, and documents
\* of one publish_date in the order in which they were collected (page by
\* page, row by row).
C11_SortedNewestFirstStable ==
    [][ Returns =>
          \A collected \in { Collected } :
             /\ Len(docs') = Len(collected)
             /\ \A i \in 1..Len(docs'), j \in 1..Len(docs') :
                    i < j => ~DateLess(docs'[i].publish_date, docs'[j].publish_date)
             /\ \A i \in 1..Len(collected) :
                    WithDate(docs', collected[i].publish_date)
                        = WithDate(collected, collected[i].publish_date) ]_vars

\* Two rows of the second page gave different documents of one publish_date,
\* both newer than the document of the first page, and stand before it in row
\* order.
C11_Witness ==
    /\ listPc = "done"
    /\ fetched = <<4, 3>>
    /\ Len(docs) = 3
    /\ Len(page_rows) = 2
    /\ <<docs[1], docs[2]>> = PageDocuments(page_rows, compact_type(command))
    /\ docs[1] # docs[2]
    /\ docs[1].publish_date = docs[2].publish_date
    /\ DateLess(docs[3].publish_date, docs[1].publish_date)

Count(ds, d) == Len(SelectSeq(ds, LAMBDA x : x = d))

IsPrefix(s, t) == Len(s) <= Len(t) /\ SubSeq(t, 1, Len(s)) = s

\* C12: for IFRS the pages of type 4 and then 3 are fetched, for RAS the page
\* of type 3 alone, and each page's documents are added to those collected
\* before with nothing left out: a matching row that is on both pages gives
\* two Documents.
C12_PagesInOrderNoDedup ==
    [][ LET expected == IF command' = "msfo" THEN <<4, 3>> ELSE <<3>>
        IN /\ IsPrefix(fetched', expected)
           /\ Returns => fetched' = expected
           /\ page_types' # page_types /\ fetched' # <<>>
                => \A added \in { PageDocuments(page_rows', compact_type(command)) } :
                       /\ Len(docs') = Len(docs) + Len(added)
                       /\ \A i \in 1..Len(docs') :
                              Count(docs', docs'[i])
                                  = Count(docs, docs'[i]) + Count(added, docs'[i])
       ]_vars

\* One row on the page of type 4 and the same row on the page of type 3 gave
\* two equal Documents.
C12_Witness ==
    /\ listPc = "done"
    /\ fetched = <<4, 3>>
    /\ Len(page_rows) = 1
    /\ Len(docs) = 2
    /\ docs[1] = docs[2]

\* A row that the claim keeps: its type falls into the requested bucket, its
\* publish date parses, and its link is not empty.
Kept(row) ==
    /\ normalize_doc_type(Strip(row.type)) = compact_type(command)
    /\ parse_publish_date(row.publish_date).ok
    /\ Strip(row.file_url) # <<>>

\* C13: every Document has the requested type, one of the two buckets, a
\* parsed publish_date and a URL made from a non-empty link; a page adds one
\* Document for each of its rows that has all three and none for the others,
\* wherever in the page they stand.
C13_OnlyCompleteRowsKept ==
    [][ page_types' # page_types /\ fetched' # <<>>
          => /\ \A i \in 1..Len(docs') :
                    /\ docs'[i].doc_type = compact_type(command)
                    /\ docs'[i].doc_type \in { WordIfrs, WordRas }
                    /\ docs'[i].publish_date.ok
                    /\ docs'[i].url # BASE_URL
             /\ Len(docs') = Len(docs) + Len(SelectSeq(page_rows', Kept)) ]_vars

\* The token starts with the four characters of a year.
StartsWithYear(s) == Len(s) >= 4 /\ IsYearAt(s, 1)

HasYear(s) == \E i \in 1..Len(s) : IsYearAt(s, i)

\* The part of a token after its year.
Rest(s) == SubSeq(s, 5, Len(s))

IsCount(s) == s # <<>> /\ s[1] \in 49..57 /\ \A i \in 1..Len(s) : IsDigit(s[i])

\* YYYY | YYYYQ{1-4} | YYYYH1 | YYYYM{n}
IsCanonical(s) ==
    /\ StartsWithYear(s)
    /\ \/ Rest(s) = <<>>
       \/ Len(Rest(s)) = 2 /\ Rest(s)[1] = 81 /\ Rest(s)[2] \in 49..52
       \/ Rest(s) = <<72, 49>>
       \/ Rest(s) # <<>> /\ Rest(s)[1] = 77 /\ IsCount(Tail(Rest(s)))

\* C14: for every text in which a 4-digit year is found, normalize_period
\* returns a token of the canonical grammar (the year alone, or the year
\* followed by Q and a digit 1-4, by H1, or by M and a month count); a Q token
\* always has its quarter in 1..4.
C14_TokenIsCanonical ==
    periodPc # "start" /\ HasYear(period_text) => IsCanonical(token)

\* C15: normalize_period is idempotent on its own output: the token returned
\* for a token equals that token, also when the token is a quarter, half-year
\* or month-count token.
C15_Idempotent ==
    periodPc = "twice" => token_again = token

\* s[i..j] is a numeral of the class standing before the word: a whole run of
\* the class, at a word boundary when bounded, with only white space between
\* it and the word.
NumeralAt(s, i, j, class, word, bounded) ==
    /\ i <= j
    /\ \A k \in i..j : s[k] \in class
    /\ j = Len(s) \/ s[j + 1] \notin class
    /\ bounded => (i = 1 \/ ~IsWord(s[i - 1]))
    /\ \E k \in (j + 1)..Len(s) :
           /\ \A h \in (j + 1)..(k - 1) : IsSpace(s[h])
           /\ StartsWith(SubSeq(s, k, Len(s)), word)

\* The leftmost such numeral of s, <<>> if there is none.
Numeral(s, class, word, bounded) ==
    LET found == { p \in (1..Len(s)) \X (1..Len(s)) :
                       NumeralAt(s, p[1], p[2], class, word, bounded) }
    IN IF found = {} THEN <<>>
       ELSE LET p == CHOOSE q \in found : \A r \in found : q[1] <= r[1]
            IN SubSeq(s, p[1], p[2])

RomanNumerals == << <<105>>, <<105, 105>>, <<105, 105, 105>>, <<105, 118>> >>

\* The token the ordered rules give for a text with a year: no marker, Roman
\* quarter, Arabic quarter, half-year, month count, bare year.
ByRules(text) ==
    LET lowered == Lower(text)
        y == CHOOSE i \in 1..Len(text) :
                 IsYearAt(text, i) /\ \A j \in 1..(i - 1) : ~IsYearAt(text, j)
        year == SubSeq(text, y, y + 3)
        quarter == WordQuarterStem
        roman == Numeral(lowered, {105, 118, 120}, quarter, TRUE)
        arabic == Numeral(lowered, 48..57, quarter, TRUE)
        count == Numeral(lowered, 48..57, WordMonthStem, FALSE)
    IN IF ~( \/ Contains(lowered, WordMonthStem)
             \/ Contains(lowered, quarter \o <<1072, 1083>>)
             \/ Contains(lowered, WordHalfStem) ) THEN year
       ELSE IF \E q \in 1..4 : RomanNumerals[q] = roman
            THEN year \o <<81>> \o IntToStr(CHOOSE q \in 1..4 : RomanNumerals[q] = roman)
       ELSE IF arabic # <<>> THEN year \o <<81>> \o IntToStr(StrToInt(arabic))
       ELSE IF \/ Contains(lowered, WordHalfStem)
               \/ Contains(lowered, <<54, 32>> \o WordMonthStem \o <<1077, 1074>>)
            THEN year \o <<72, 49>>
       ELSE IF count # <<>> THEN year \o <<77>> \o IntToStr(StrToInt(count))
       ELSE year

RegularPdfs(files) ==
    { f.path : f \in { g \in files :
          LET name == g.path[Len(g.path)]
          IN /\ ~g.link
             /\ Len(name) > 4
             /\ Lower(SubSeq(name, Len(name) - 3, Len(name))) = PdfSuffix } }

Signatures ==
    { << SigPdf, "pdf" >>, << SigZipLocal, "zip" >>, << SigZipCentral, "zip" >>,
      << SigZipSpanned, "zip" >>, << Sig7z, "7z" >>, << SigRar4, "rar" >>,
      << SigRar5, "rar" >> }

Extensions ==
    { << PdfSuffix, "pdf" >>, << <<46, 122, 105, 112>>, "zip" >>,
      << <<46, 55, 122>>, "7z" >>, << <<46, 114, 97, 114>>, "rar" >> }

\* The first 8 bytes of the file begin with the signature.
Signed(sig) ==
    /\ Len(sig) <= 8
    /\ Len(sig) <= Len(file_header)
    /\ SubSeq(file_header, 1, Len(sig)) = sig

\* The file name ends with the extension in any case, after a non-empty stem.
Named(ext) ==
    /\ Len(file_name) > Len(ext)
    /\ Lower(SubSeq(file_name, Len(file_name) - Len(ext) + 1, Len(file_name))) = ext

\* C18: detect_file_type decides by the first 8 bytes before the file name: a
\* known signature determines the type whatever the extension says; only
\* when no signature matches is the lower-cased extension mapped; when
\* neither matches the unsupported-file-type error is raised.
C18_SignatureBeforeExtension ==
    detected # "" =>
        /\ \A s \in Signatures : Signed(s[1]) => detected = s[2]
        /\ (\A s \in Signatures : ~Signed(s[1]))
               => /\ \A e \in Extensions : Named(e[1]) => detected = e[2]
                  /\ (\A e \in Extensions : ~Named(e[1])) => detected = "unsupported"

\* A RAR signature in a file named a.zip gave rar.
C18_Witness ==
    /\ detected = "rar"
    /\ Signed(SigRar5)
    /\ Named(<<46, 122, 105, 112>>)

\* The documents whose period token starts with the trimmed filter, compared
\* without regard to case; every document when the filter is empty.
Filtered(ds, pf) ==
    SelectSeq(ds, LAMBDA d :
        /\ Len(Strip(pf)) <= Len(d.period)
        /\ Lower(SubSeq(d.period, 1, Len(Strip(pf)))) = Lower(Strip(pf)))

\* C19: build_script_filter_items emits, in the order of the documents, one
\* selectable item per Document whose period token starts with the trimmed
\* filter compared case-insensitively (an empty filter matches every
\* Document); exactly when no Document matches, the output is one item with
\* valid = false and no arg, so the list of items is never empty.
C19_ItemsAreTheMatchingDocuments ==
    [][ Returns =>
          \A matching \in { Filtered(docs', period) } :
             /\ items' # <<>>
             /\ matching # <<>> =>
                    /\ Len(items') = Len(matching)
                    /\ \A i \in 1..Len(matching) :
                           /\ items'[i].valid
                           /\ items'[i] = DocumentItem(matching[i], ticker)
             /\ matching = <<>> =>
                    /\ Len(items') = 1
                    /\ ~items'[1].valid
                    /\ items'[1].arg = <<>>
             /\ (\E i \in 1..Len(items') : ~items'[i].valid) => matching = <<>> ]_vars

\* The padded lower-case filter " 2024q " kept one of two documents.
C19_Witness ==
    /\ listPc = "done"
    /\ period = <<32, 50, 48, 50, 52, 113, 32>>
    /\ Len(docs) = 2
    /\ Len(items) = 1
    /\ items[1].valid
    /\ items[1] = DocumentItem(docs[2], ticker)

\* collect_documents was left by an exception: main is done while page types
\* are still pending.
Aborted == listPc = "done" /\ page_types # <<>>

\* C20: a fetch failure on any page aborts the whole listing: no Document of
\* any page, also of a page fetched before, is reported, the output is exactly
\* one non-selectable error item, and the failed fetch is not tried again.
C20_FetchFailureAborts ==
    [][ /\ ( listPc = "collect" /\ fetched' # fetched /\ page_types' = page_types )
            => /\ Aborted'
               /\ Len(fetched') = Len(fetched) + 1
               /\ Len(items') = 1
               /\ ~items'[1].valid
               /\ items'[1].arg = <<>>
               /\ \A i \in 1..Len(docs) : items'[1] # DocumentItem(docs[i], ticker)
        /\ Aborted
            => /\ Aborted'
               /\ fetched' = fetched
               /\ items' = items
               /\ loaded' = loaded ]_vars

\* The second page failed after the first had given a document.
C20_Witness ==
    /\ Aborted
    /\ fetched = <<4, 3>>
    /\ page_types = <<3>>
    /\ docs # <<>>
    /\ Len(items) = 1
    /\ ~items[1].valid

\* The runs of the RAR tools made in a step, with their outcomes.
NewLog == SubSeq(log', Len(log) + 1, Len(log'))

Failure(tool) == IF tool = "bsdtar" THEN "bsdtar failed" ELSE "unrar failed"

Ran(new, tool) == \E i \in 1..Len(new) : new[i] \in { tool, Failure(tool) }

\* C21: RAR extraction tries bsdtar first and unrar second; unrar runs only if
\* bsdtar is unavailable or exited with failure; the call goes on as soon as
\* one tool exits successfully and the containment check passes; it fails with
\* the extraction-failed error exactly when each tool was unavailable or
\* failed, and then the error holds one diagnostic for each tool, in that
\* order.
C21_RarToolsInOrder ==
    [][ ( pc = "extract" /\ file_type = "rar" /\ ~(dirExists /\ dirFiles # {}) ) =>
          \A new \in { NewLog } :
          LET unavailableOrFailed(tool) ==
                  \/ tool \notin tools
                  \/ \E i \in 1..Len(new) : new[i] = Failure(tool)
              failed == pc' = "idle" /\ results'[Len(results')].err = "ExtractionFailed"
              diag == results'[Len(results')].diag
          IN /\ Len(new) <= 2
             /\ \A i \in 1..Len(new) :
                    /\ new[i] \in { "bsdtar", "bsdtar failed", "unrar", "unrar failed" }
                    /\ new[i] \in { "bsdtar", "bsdtar failed" } => i = 1 /\ "bsdtar" \in tools
                    /\ new[i] \in { "unrar", "unrar failed" } =>
                           /\ i = Len(new)
                           /\ "unrar" \in tools
                           /\ "bsdtar" \notin tools \/ (i = 2 /\ new[1] = "bsdtar failed")
             /\ "bsdtar" \in tools => Ran(new, "bsdtar")
             /\ ( new # <<>> /\ new[Len(new)] \in { "bsdtar", "unrar" } ) =>
                    IF \E f \in dirFiles' : f.link
                    THEN pc' = "idle" /\ results'[Len(results')].err = "UnsafePath"
                    ELSE pc' = "stage" /\ results' = results
             /\ failed <=> ( unavailableOrFailed("bsdtar") /\ unavailableOrFailed("unrar") )
             /\ failed =>
                    /\ Len(diag) = 2
                    /\ diag[1] = IF "bsdtar" \in tools THEN "bsdtar failed"
                                 ELSE "bsdtar not found"
                    /\ diag[2] = IF "unrar" \in tools THEN "unrar failed"
                                 ELSE "unrar not found" ]_vars

\* bsdtar failed on the archive and unrar then extracted it.
C21_Witness ==
    /\ pc = "stage"
    /\ file_type = "rar"
    /\ Len(log) >= 2
    /\ log[Len(log) - 1] = "bsdtar failed"
    /\ log[Len(log)] = "unrar"
    /\ dirFiles # {}

\* The event handled by the step is the start tag of a row.
RowStart == last'.kind = "start" /\ last'.tag = "tr"

\* C23: in every reachable parser state in_file_cell implies in_row and
\* current_cell_index is at least -1; a row start seen while in_files_table is
\* set resets the index to -1 with a fresh empty row; rows only grows, by one
\* row, on a tr end tag handled while in_row; in_row becomes true only on a tr
\* start tag seen while in_files_table is set; in_files_table is set by a
\* files-table start tag and cleared by the end tag of any table, so a row
\* start that follows a nested table's end tag leaves the parser as it was.
C23_ParserStateMachine ==
    [][ /\ in_file_cell => in_row
        /\ in_file_cell' => in_row'
        /\ current_cell_index >= -1
        /\ current_cell_index' >= -1
        /\ ( RowStart /\ in_files_table )
             => /\ in_row'
                /\ current_cell_index' = -1
                /\ current_row' = EmptyRow
                /\ ~in_file_cell'
                /\ rows' = rows
        /\ rows' # rows
             => /\ last' = EndTag("tr")
                /\ in_row
                /\ Len(rows') = Len(rows) + 1
                /\ SubSeq(rows', 1, Len(rows)) = rows
        /\ ( in_row' /\ ~in_row ) => ( RowStart /\ in_files_table )
        /\ in_files_table' <=>
             \/ last'.kind = "start" /\ last'.tag = "table"
                  /\ Contains(last'.cls, ClsFilesTable)
             \/ in_files_table /\ last' # EndTag("table")
        /\ ( RowStart /\ ~in_files_table )
             => UNCHANGED << in_files_table, in_row, current_cell_index,
                             current_row, rows, in_file_cell >> ]_vars

\* A table without the class ended inside a cell of a tracked row; the row
\* start that followed was not tracked: the row is still open at column 0.
C23_Witness ==
    /\ last = StartTag("tr", <<>>, <<>>)
    /\ ~in_files_table
    /\ in_row
    /\ current_cell_index = 0
    /\ fed >= 6

\* Some file of the cache key is stored: the PDF or a raw candidate.
Stored(files) == \E e \in Exts : files[e].exists

\* C24: over sequential calls for one cache key download_file is entered only
\* while neither the cached PDF nor any raw candidate exists; stored files
\* stay stored, so once a download has written the raw file no later call
\* reaches download_file: a retry picks the stored file and goes on to
\* detect_file_type with it.
C24_DownloadsOnlyIntoEmptyCache ==
    [][ /\ pc = "download" => ~Stored(raw)
        /\ pc' = "download" => ~Stored(raw')
        /\ Stored(raw)
             => /\ Stored(raw')
                /\ pc' # "download"
                /\ Len(log') > Len(log) => log'[Len(log')] # "download_file"
        /\ ( pc = "locate" /\ Stored(raw) ) => raw[file_path'].exists
        /\ ( pc = "check" /\ Stored(raw) /\ ~raw["pdf"].exists )
             => pc' = "detect" /\ raw' = raw ]_vars

\* The first call stored a file whose type was not detected; the retry went
\* straight to detect_file_type with the stored file and failed the same way.
C24_Witness ==
    /\ pc = "idle"
    /\ Len(results) = 2
    /\ results[1].err = "UnsupportedFileType"
    /\ results[2].err = "UnsupportedFileType"
    /\ log = << "detect_file_type" >>
    /\ raw["bin"].exists

\* The running call returns or raises on this step.
Finishes == pc # "idle" /\ pc' = "idle"

\* C25: the path a call returns is built from the upper-cased ticker, the
\* doc_type, the period and the publish_date of its payload alone; the url is
\* not part of the key: a call that follows a successful call given another
\* url returns the same path and leaves the cached PDF and every other cache
\* file as they are, without any download.
C25_UrlIsNotPartOfTheKey ==
    [][ Finishes =>
          \A res \in { results'[Len(results')] } :
            /\ res.ok =>
                 /\ res.path.dir = Upper(payload.ticker)
                 /\ res.path.base = << Upper(payload.ticker), payload.doc_type,
                                       payload.period, payload.publish_date >>
                 /\ res.path.ext = "pdf"
                 /\ raw'["pdf"].exists
            /\ \A i \in 1..Len(results) :
                 ( results[i].ok /\ results[i].url # payload.url )
                   => /\ res.ok
                      /\ res.url = payload.url
                      /\ res.path = results[i].path
                      /\ raw' = raw
                      /\ dirFiles' = dirFiles
                      /\ log' = <<>> ]_vars

\* A call given url u1 succeeded; the next call, given url u2 and the ticker
\* in lower case, returned the same path with nothing done.
C25_Witness ==
    /\ pc = "idle"
    /\ Len(results) = 2
    /\ results[1].ok
    /\ results[1].url = "u1"
    /\ results[2].ok
    /\ results[2].url = "u2"
    /\ results[2].path = results[1].path
    /\ payload.ticker = <<115, 98>>
    /\ log = <<>>

\* The invocation has a step to take.
Runs(p) ==
    ENABLED ( \/ RaceLocate(p) \/ RaceCheck(p) \/ RaceOpen(p) \/ RaceWrite(p)
              \/ RaceClose(p) \/ RaceDetect(p) \/ RaceRename(p) \/ RaceCopy(p)
              \/ RaceExtract(p) \/ RaceUnzip(p) \/ RaceStage(p)
              \/ RaceInstall(p) )

\* C22: nothing makes two concurrent invocations for one cache key wait for
\* each other: an invocation that has not ended can always take its next
\* step, its existence checks look at the files only, so with no file stored
\* it goes on to download whatever the other invocation is doing, and a
\* write that ends replaces what the raw file held (last writer wins; where
\* the writes overlapped the file can hold a damaged mix of the writer's body).
C22_NoMutualExclusion ==
    [][ \A p \in Procs :
          /\ procPc[p] # "done" => Runs(p)
          /\ procPc'[p] # "done" => Runs(p)'
          /\ ( procPc[p] = "check" /\ procPc'[p] # "check" )
               => procPc'[p] = IF raw["pdf"].exists THEN "done"
                               ELSE IF raw[procPath[p]].exists THEN "detect"
                               ELSE "download"
          /\ ( procPc[p] = "close" /\ procPc'[p] = "detect" )
               => /\ writers' = Append(writers, p)
                  /\ raw'[procHandle[p]] \in
                         { procBody[p] } \cup Truncated(procBody[p])
                  /\ raw[procHandle[p]] \in
                         { [procBody[p] EXCEPT !.complete = FALSE], procBody[p] }
                         => raw'[procHandle[p]] = procBody[p] ]_vars

\* Both invocations passed the checks, downloaded and wrote the same raw
\* file, the second write ending last; the first invocation renamed the file
\* and returned the PDF, the second one raised on the name it had kept.
C22_Witness ==
    /\ writers = << 1, 2 >>
    /\ procBody[1].entries # procBody[2].entries
    /\ raw["zip"] = procBody[2]
    /\ ~raw["bin"].exists
    /\ raw["pdf"].exists
    /\ procResult[1] = "ok"
    /\ procResult[2] = "FileNotFoundError"

====
